---- MODULE Spec2Model ----
(***************************************************************************)
(* Model of the item-classification route                                  *)
(*   src/app/api/vision/items/classify/route.ts                            *)
(* The file holds two versions of the route: the contract version          *)
(* (lines 1-915, returns a ClassificationContractV1) and the slots version *)
(* (lines 916-1675, also accepts pre-cropped slot regions in 'slots').     *)
(*                                                                         *)
(* A hash string is a sequence of one-character strings (hex digits); a    *)
(* bit string is a sequence of "0"/"1".                                    *)
(***************************************************************************)
EXTENDS Integers, Sequences, FiniteSets, TLC

VARIABLES
    call,           \* pure-function harness: the argument records of the runs to make
    ret,            \* pure-function harness: the results of the runs made so far
    req,            \* the request: route version, ?mode value, form fields, pixel content
    matchingEnv,    \* process.env.ITEM_CLASSIFY_MATCHING
    pc,             \* the position of POST in its body
    boxes,          \* POST's boxes
    slots,          \* POST's slots
    groups,         \* POST's groups
    catalog,        \* POST's candidates: the catalog rows with a source image URL
    itemHashes,     \* POST's itemHashes
    batchStart,     \* the loop variable i of the hashing loop
    itemHashCache,  \* the process-wide fingerprint cache, keyed by image URL
    now,            \* Date.now()
    response,       \* what POST returned
    queryError,     \* the error of the catalog query's answer
    hashCalls,      \* the hashOne calls of the request: catalog index -> pending or result
    fetchStarts,    \* the image URLs fetched by the request, in the order the fetches began
    requestTimedOut \* the caller's deadline for the request has passed

harnessVars == <<call, ret>>
requestVars == <<req, matchingEnv, pc, boxes, slots, groups, catalog, itemHashes,
                 batchStart, itemHashCache, now, response, queryError, hashCalls,
                 fetchStarts, requestTimedOut>>
vars == <<call, ret, req, matchingEnv, pc, boxes, slots, groups, catalog, itemHashes,
          batchStart, itemHashCache, now, response, queryError, hashCalls,
          fetchStarts, requestTimedOut>>

(***************************************************************************)
(* Program constants                                                       *)
(***************************************************************************)
MIN_SCORE_CANDIDATE == 38
MIN_SCORE_AUTODETECT == 46
MIN_AUTODETECT_MARGIN == 3
GROUP_MERGE_MAX_ADJ_DIST == 20
DOMINANT_BEST_COUNT == 2
DOMINANT_MARGIN_BONUS == 2
TOP_N == 5
\* length of a hash string (hammingDistanceHex64's length test and loop bound)
HEX_LEN == 16
\* the value hammingDistanceHex64 returns for a string of another length
DIST_BAD_LEN == 64
\* the score of two identical fingerprints (scoreTripleHash: 64 - ...)
SCORE_MAX == 64
\* the denominator of scoreTripleHash
SCORE_DENOM == 4

(***************************************************************************)
(* Hex strings and bit strings                                             *)
(***************************************************************************)
HexDigits == <<"0", "1", "2", "3", "4", "5", "6", "7",
               "8", "9", "a", "b", "c", "d", "e", "f">>

\* Number.prototype.toString(16) of a nibble value 0..15
toStringHex(n) == HexDigits[n + 1]

\* parseInt(c, 16) of one character: its value, or NaN (written -1 here)
HexValue == [c \in {HexDigits[n + 1] : n \in 0..15} |->
                CHOOSE n \in 0..15 : HexDigits[n + 1] = c]

parseIntHex(c) == IF c \in DOMAIN HexValue THEN HexValue[c] ELSE -1

\* parseInt(nibble, 2) of a 4-character bit string
parseIntBin(nibble) ==
    8 * (IF nibble[1] = "1" THEN 1 ELSE 0) + 4 * (IF nibble[2] = "1" THEN 1 ELSE 0)
    + 2 * (IF nibble[3] = "1" THEN 1 ELSE 0) + (IF nibble[4] = "1" THEN 1 ELSE 0)

\* the tail of computeAHash64From8x8Gray (and of the dHash and pHash
\* functions): 64 bits, four at a time, to 16 hex digits
bitsToHex(bits) ==
    [j \in 1..(Len(bits) \div 4) |->
        toStringHex(parseIntBin(SubSeq(bits, 4 * j - 3, 4 * j)))]

\* (x >> k) & 1
BitAt(x, k) == (x \div (2 ^ k)) % 2

\* 64-bit patterns: the first k bits set
Ones(k) == [i \in 1..64 |-> IF i <= k THEN "1" ELSE "0"]

\* 64-bit patterns: the first k nibbles hold the value n, the others 0
NibbleRun(n, k) ==
    [i \in 1..64 |->
        IF (i - 1) \div 4 < k /\ BitAt(n, 3 - ((i - 1) % 4)) = 1 THEN "1" ELSE "0"]

\* a fingerprint: the three hashes of one pixel region
Fingerprint(aBits, dBits, pBits) ==
    [aHash64 |-> bitsToHex(aBits), dHash64 |-> bitsToHex(dBits),
     pHash64 |-> bitsToHex(pBits)]


\* ToInt32 of a parseInt result: NaN becomes 0
ToInt32(v) == IF v < 0 THEN 0 ELSE v

\* an ^ bn on nibble values
BitXor(an, bn) ==
    LET a == ToInt32(an)
        b == ToInt32(bn)
    IN  ((BitAt(a, 0) + BitAt(b, 0)) % 2)
        + 2 * ((BitAt(a, 1) + BitAt(b, 1)) % 2)
        + 4 * ((BitAt(a, 2) + BitAt(b, 2)) % 2)
        + 8 * ((BitAt(a, 3) + BitAt(b, 3)) % 2)

\* one iteration of hammingDistanceHex64's loop: the bits set in a16[i] ^ b16[i]
NibbleDist(ac, bc) ==
    LET x == BitXor(parseIntHex(ac), parseIntHex(bc))
    IN  BitAt(x, 0) + BitAt(x, 1) + BitAt(x, 2) + BitAt(x, 3)

\* NibbleDist of every pair of hex digits, computed once
NibbleDists ==
    [ac \in DOMAIN HexValue |-> [bc \in DOMAIN HexValue |-> NibbleDist(ac, bc)]]

RECURSIVE HammingLoop(_, _, _)
HammingLoop(a16, b16, i) ==
    IF i > HEX_LEN THEN 0
    ELSE (IF a16[i] \in DOMAIN HexValue /\ b16[i] \in DOMAIN HexValue
          THEN NibbleDists[a16[i]][b16[i]]
          ELSE NibbleDist(a16[i], b16[i]))
         + HammingLoop(a16, b16, i + 1)

\* a plausible slip: the top bit of each nibble is not counted
HammingDropsTopBit(a16, b16) ==
    IF Len(a16) # HEX_LEN \/ Len(b16) # HEX_LEN THEN DIST_BAD_LEN
    ELSE LET RECURSIVE Loop(_)
             Loop(i) ==
                 IF i > HEX_LEN THEN 0
                 ELSE LET x == BitXor(parseIntHex(a16[i]), parseIntHex(b16[i]))
                      IN  BitAt(x, 0) + BitAt(x, 1) + BitAt(x, 2) + Loop(i + 1)
         IN  Loop(1)

hammingDistanceHex64(a16, b16) ==
    IF Len(a16) # HEX_LEN \/ Len(b16) # HEX_LEN THEN DIST_BAD_LEN
    ELSE HammingLoop(a16, b16, 1)

\* Math.round(num / den) for num >= 0, den > 0: halves go up
MathRound(num, den) == (2 * num + den) \div (2 * den)

\* a plausible slip: the quotient is truncated instead of rounded
ScoreTruncates(aHashA, dHashA, pHashA, aHashB, dHashB, pHashB) ==
    LET da == hammingDistanceHex64(aHashA, aHashB)
        dd == hammingDistanceHex64(dHashA, dHashB)
        dp == hammingDistanceHex64(pHashA, pHashB)
    IN  SCORE_MAX - ((da + dd + dp * 2) \div SCORE_DENOM)

scoreTripleHash(aHashA, dHashA, pHashA, aHashB, dHashB, pHashB) ==
    LET da == hammingDistanceHex64(aHashA, aHashB)
        dd == hammingDistanceHex64(dHashA, dHashB)
        dp == hammingDistanceHex64(pHashA, pHashB)
        weighted == da + dd + dp * 2
    IN  SCORE_MAX - MathRound(weighted, SCORE_DENOM)

(***************************************************************************)
(* Contract: candidates and status                                         *)
(***************************************************************************)
Statuses == {"disabled", "no_matches", "matches", "ambiguous"}

\* String(c.itemId)
String(n) == <<"0", "1", "2", "3", "4", "5", "6", "7", "8", "9">>[n + 1]

\* the number of entries of items with the given slot_index: bySlot.get(s)
SlotCount(items, s) == Cardinality({i \in 1..Len(items) : items[i].slot_index = s})

\* a plausible slip: only the first candidate's unit is looked at
DeriveStatusFirstUnitOnly(items, isDisabled) ==
    IF isDisabled THEN "disabled"
    ELSE IF Len(items) = 0 THEN "no_matches"
    ELSE IF SlotCount(items, items[1].slot_index) > 1 THEN "ambiguous"
         ELSE "matches"

\* a plausible slip: a unit counts as ambiguous only from three candidates on
DeriveStatusOffByOne(items, isDisabled) ==
    IF isDisabled THEN "disabled"
    ELSE IF Len(items) = 0 THEN "no_matches"
    ELSE IF \E i \in 1..Len(items) : SlotCount(items, items[i].slot_index) > 2
         THEN "ambiguous"
         ELSE "matches"

\* a plausible slip: a close pair of scores anywhere makes the result ambiguous
DeriveStatusReadsScores(items, isDisabled) ==
    IF isDisabled THEN "disabled"
    ELSE IF Len(items) = 0 THEN "no_matches"
    ELSE IF \E i, j \in 1..Len(items) :
              /\ i # j
              /\ items[i].slot_index = items[j].slot_index
              /\ items[i].meta.score - items[j].meta.score < MIN_AUTODETECT_MARGIN
              /\ items[j].meta.score - items[i].meta.score < MIN_AUTODETECT_MARGIN
         THEN "ambiguous"
         ELSE "matches"

\* a plausible slip: the empty list is not told apart
DeriveStatusEmptyIsMatches(items, isDisabled) ==
    IF isDisabled THEN "disabled"
    ELSE IF \E i \in 1..Len(items) : SlotCount(items, items[i].slot_index) > 1
         THEN "ambiguous"
         ELSE "matches"

deriveStatusFromCandidates(items, isDisabled) ==
    IF isDisabled THEN "disabled"
    ELSE IF Len(items) = 0 THEN "no_matches"
    ELSE LET bySlot == [s \in {items[i].slot_index : i \in 1..Len(items)} |->
                            SlotCount(items, s)]
         IN  IF \E s \in DOMAIN bySlot : bySlot[s] > 1
             THEN "ambiguous"
             ELSE "matches"

(***************************************************************************)
(* Slots, boxes and groups                                                 *)
(***************************************************************************)
\* buildItemIconBoxes carves the band into this many slots
NUM_SLOTS == 10

Max(a, b) == IF a >= b THEN a ELSE b
Min(a, b) == IF a <= b THEN a ELSE b

\* A CropBox, in units of one slot width and one band height: the pixel
\* geometry of buildItemIconBoxes (band anchor, insets, clamping) is left out,
\* slot i is the i-th column of the band.
CropBox(left, top, width, height) ==
    [left |-> left, top |-> top, width |-> width, height |-> height]

mergeSlotBoxes(bxs, startSlot, span) ==
    LET first == bxs[startSlot + 1]
        last == bxs[startSlot + span]
        right == last.left + last.width
    IN  CropBox(first.left, first.top, Max(1, right - first.left),
                Max(first.height, last.height))

SlotFeature(index, box, fp) ==
    [index |-> index, box |-> box,
     aHash64 |-> fp.aHash64, dHash64 |-> fp.dHash64, pHash64 |-> fp.pHash64,
     autoDetected |-> FALSE, candidates |-> << >>]

\* slots[i] and slots[i + 1] (1-based here) are close enough to be one item
AdjacentClose(sl, i) ==
    hammingDistanceHex64(sl[i].aHash64, sl[i + 1].aHash64) <= GROUP_MERGE_MAX_ADJ_DIST

\* the span buildGroups gives the group that starts at sl[i] (1-based)
GroupSpanAt(sl, i) ==
    LET span2 == IF i + 1 <= Len(sl) /\ AdjacentClose(sl, i) THEN 2 ELSE 1
        span3 == IF span2 = 2 /\ i + 2 <= Len(sl) /\ AdjacentClose(sl, i + 1)
                 THEN 3 ELSE span2
        span4 == IF span3 = 3 /\ i + 3 <= Len(sl) /\ AdjacentClose(sl, i + 2)
                 THEN 4 ELSE span3
    IN  span4

\* groups.push({...}): the new group carries the start slot's hashes
NewGroup(sl, i, span) ==
    [startSlot |-> i - 1, span |-> span,
     aHash64 |-> sl[i].aHash64, dHash64 |-> sl[i].dHash64, pHash64 |-> sl[i].pHash64,
     autoDetected |-> FALSE, candidates |-> << >>]

RECURSIVE BuildGroupsFrom(_, _)
BuildGroupsFrom(sl, i) ==
    IF i > Len(sl) THEN << >>
    ELSE LET span == GroupSpanAt(sl, i)
         IN  <<NewGroup(sl, i, span)>> \o BuildGroupsFrom(sl, i + span)

\* a plausible slip: the merge test is < instead of <=
RECURSIVE BuildGroupsStrictFrom(_, _)
BuildGroupsStrictFrom(sl, i) ==
    IF i > Len(sl) THEN << >>
    ELSE LET close(j) ==
                 hammingDistanceHex64(sl[j].aHash64, sl[j + 1].aHash64)
                     < GROUP_MERGE_MAX_ADJ_DIST
             span2 == IF i + 1 <= Len(sl) /\ close(i) THEN 2 ELSE 1
             span3 == IF span2 = 2 /\ i + 2 <= Len(sl) /\ close(i + 1) THEN 3 ELSE span2
             span4 == IF span3 = 3 /\ i + 3 <= Len(sl) /\ close(i + 2) THEN 4 ELSE span3
         IN  <<NewGroup(sl, i, span4)>> \o BuildGroupsStrictFrom(sl, i + span4)

BuildGroupsStrict(sl) == BuildGroupsStrictFrom(sl, 1)

\* a plausible slip: the loop steps by one slot instead of by the span
RECURSIVE BuildGroupsStepOneFrom(_, _)
BuildGroupsStepOneFrom(sl, i) ==
    IF i > Len(sl) THEN << >>
    ELSE <<NewGroup(sl, i, GroupSpanAt(sl, i))>> \o BuildGroupsStepOneFrom(sl, i + 1)

BuildGroupsStepOne(sl) == BuildGroupsStepOneFrom(sl, 1)

buildGroups(sl) == BuildGroupsFrom(sl, 1)

(***************************************************************************)
(* Matching a group against the hashed catalog entries                     *)
(***************************************************************************)
\* best?.score of a missing candidate: undefined (written -1 here)
UNDEFINED == -1

\* scored.push({ itemId, name, score }) for every hashed entry, in order
ScoreAll(g, hashes) ==
    [j \in 1..Len(hashes) |->
        [itemId |-> hashes[j].id, name |-> hashes[j].name,
         score |-> scoreTripleHash(g.aHash64, g.dHash64, g.pHash64,
                                   hashes[j].aHash64, hashes[j].dHash64,
                                   hashes[j].pHash64)]]

\* c goes before the first entry that scores strictly less (the sort is stable)
InsertByScoreDesc(sorted, c) ==
    LET less == {i \in 1..Len(sorted) : sorted[i].score < c.score}
        at == IF less = {} THEN Len(sorted) + 1
              ELSE CHOOSE i \in less : \A j \in less : i <= j
    IN  SubSeq(sorted, 1, at - 1) \o <<c>> \o SubSeq(sorted, at, Len(sorted))

RECURSIVE SortPrefixByScoreDesc(_, _)
SortPrefixByScoreDesc(scored, n) ==
    IF n = 0 THEN << >>
    ELSE InsertByScoreDesc(SortPrefixByScoreDesc(scored, n - 1), scored[n])

\* scored.sort((a, b) => b.score - a.score)
SortByScoreDesc(scored) == SortPrefixByScoreDesc(scored, Len(scored))

AtLeastMinScore(c) == c.score >= MIN_SCORE_CANDIDATE

\* a plausible slip: the sort is left out
TopCandidatesUnsorted(g, hashes) ==
    LET filtered == SelectSeq(ScoreAll(g, hashes), AtLeastMinScore)
    IN  SubSeq(filtered, 1, Min(TOP_N, Len(filtered)))

\* sort, filter, slice(0, TOP_N)
TopCandidates(g, hashes) ==
    LET filtered == SelectSeq(SortByScoreDesc(ScoreAll(g, hashes)), AtLeastMinScore)
    IN  SubSeq(filtered, 1, Min(TOP_N, Len(filtered)))

\* a plausible slip: the auto-detect score bound is strict
WithConfidenceStrictScore(g, cands) ==
    LET hasBest == Len(cands) >= 1
        hasSecond == Len(cands) >= 2
        margin == IF ~hasBest THEN 0
                  ELSE IF ~hasSecond THEN cands[1].score
                  ELSE cands[1].score - cands[2].score
        marginOk == ~hasSecond \/ margin >= MIN_AUTODETECT_MARGIN
    IN  [startSlot |-> g.startSlot, span |-> g.span,
         aHash64 |-> g.aHash64, dHash64 |-> g.dHash64, pHash64 |-> g.pHash64,
         candidates |-> cands,
         bestScore |-> IF hasBest THEN cands[1].score ELSE UNDEFINED,
         secondScore |-> IF hasSecond THEN cands[2].score ELSE UNDEFINED,
         bestMargin |-> margin,
         ambiguous |-> ~hasBest \/ (hasSecond /\ margin < MIN_AUTODETECT_MARGIN),
         autoDetected |-> hasBest /\ cands[1].score > MIN_SCORE_AUTODETECT /\ marginOk]

\* a plausible slip: a margin equal to the bound counts as ambiguous
WithConfidenceMarginInclusive(g, cands) ==
    LET hasBest == Len(cands) >= 1
        hasSecond == Len(cands) >= 2
        margin == IF ~hasBest THEN 0
                  ELSE IF ~hasSecond THEN cands[1].score
                  ELSE cands[1].score - cands[2].score
        marginOk == ~hasSecond \/ margin >= MIN_AUTODETECT_MARGIN
    IN  [startSlot |-> g.startSlot, span |-> g.span,
         aHash64 |-> g.aHash64, dHash64 |-> g.dHash64, pHash64 |-> g.pHash64,
         candidates |-> cands,
         bestScore |-> IF hasBest THEN cands[1].score ELSE UNDEFINED,
         secondScore |-> IF hasSecond THEN cands[2].score ELSE UNDEFINED,
         bestMargin |-> margin,
         ambiguous |-> ~hasBest \/ (hasSecond /\ margin <= MIN_AUTODETECT_MARGIN),
         autoDetected |-> hasBest /\ cands[1].score >= MIN_SCORE_AUTODETECT /\ marginOk]

\* a plausible slip: the `!best ||` of the ambiguous flag is left out
WithConfidenceEmptyIsClear(g, cands) ==
    LET hasBest == Len(cands) >= 1
        hasSecond == Len(cands) >= 2
        margin == IF ~hasBest THEN 0
                  ELSE IF ~hasSecond THEN cands[1].score
                  ELSE cands[1].score - cands[2].score
        marginOk == ~hasSecond \/ margin >= MIN_AUTODETECT_MARGIN
    IN  [startSlot |-> g.startSlot, span |-> g.span,
         aHash64 |-> g.aHash64, dHash64 |-> g.dHash64, pHash64 |-> g.pHash64,
         candidates |-> cands,
         bestScore |-> IF hasBest THEN cands[1].score ELSE UNDEFINED,
         secondScore |-> IF hasSecond THEN cands[2].score ELSE UNDEFINED,
         bestMargin |-> margin,
         ambiguous |-> hasSecond /\ margin < MIN_AUTODETECT_MARGIN,
         autoDetected |-> hasBest /\ cands[1].score >= MIN_SCORE_AUTODETECT /\ marginOk]

\* best, second, margin and the two flags of a group, from a candidate list
\* (the same lines after matching and after a dominance removal)
WithConfidence(g, cands) ==
    LET hasBest == Len(cands) >= 1
        hasSecond == Len(cands) >= 2
        margin == IF ~hasBest THEN 0
                  ELSE IF ~hasSecond THEN cands[1].score
                  ELSE cands[1].score - cands[2].score
        marginOk == ~hasSecond \/ margin >= MIN_AUTODETECT_MARGIN
    IN  [startSlot |-> g.startSlot, span |-> g.span,
         aHash64 |-> g.aHash64, dHash64 |-> g.dHash64, pHash64 |-> g.pHash64,
         candidates |-> cands,
         bestScore |-> IF hasBest THEN cands[1].score ELSE UNDEFINED,
         secondScore |-> IF hasSecond THEN cands[2].score ELSE UNDEFINED,
         bestMargin |-> margin,
         ambiguous |-> ~hasBest \/ (hasSecond /\ margin < MIN_AUTODETECT_MARGIN),
         autoDetected |-> hasBest /\ cands[1].score >= MIN_SCORE_AUTODETECT /\ marginOk]

\* one iteration of the matching loop
MatchGroup(g, hashes) == WithConfidence(g, TopCandidates(g, hashes))

(***************************************************************************)
(* Dominant best-item suppression                                          *)
(***************************************************************************)
\* bestCountByItemId.get(id) ?? 0, tallied over all groups before any removal
BestCount(gs, id) ==
    Cardinality({j \in 1..Len(gs) :
                    Len(gs[j].candidates) >= 1 /\ gs[j].candidates[1].itemId = id})

\* a plausible slip: the margin does not exempt a group
SuppressGroupIgnoresMargin(g, gs) ==
    IF Len(g.candidates) = 0 THEN g
    ELSE LET best == g.candidates[1]
             NotBest(c) == c.itemId # best.itemId
         IN  IF BestCount(gs, best.itemId) < DOMINANT_BEST_COUNT THEN g
             ELSE WithConfidence(g, SelectSeq(g.candidates, NotBest))

\* a plausible slip: the count test is <= instead of <
SuppressGroupAboveCount(g, gs) ==
    IF Len(g.candidates) = 0 THEN g
    ELSE LET best == g.candidates[1]
             NotBest(c) == c.itemId # best.itemId
         IN  IF BestCount(gs, best.itemId) <= DOMINANT_BEST_COUNT THEN g
             ELSE IF g.bestMargin >= MIN_AUTODETECT_MARGIN + DOMINANT_MARGIN_BONUS THEN g
             ELSE WithConfidence(g, SelectSeq(g.candidates, NotBest))

\* a plausible slip: the candidates are filtered, the figures are left as they were
SuppressGroupKeepsFigures(g, gs) ==
    IF Len(g.candidates) = 0 THEN g
    ELSE LET best == g.candidates[1]
             NotBest(c) == c.itemId # best.itemId
         IN  IF BestCount(gs, best.itemId) < DOMINANT_BEST_COUNT THEN g
             ELSE IF g.bestMargin >= MIN_AUTODETECT_MARGIN + DOMINANT_MARGIN_BONUS THEN g
             ELSE [g EXCEPT !.candidates = SelectSeq(g.candidates, NotBest)]

\* one iteration of the suppression loop; gs is the list the tally was made on
SuppressGroup(g, gs) ==
    IF Len(g.candidates) = 0 THEN g
    ELSE LET best == g.candidates[1]
             NotBest(c) == c.itemId # best.itemId
         IN  IF BestCount(gs, best.itemId) < DOMINANT_BEST_COUNT THEN g
             ELSE IF g.bestMargin >= MIN_AUTODETECT_MARGIN + DOMINANT_MARGIN_BONUS THEN g
             ELSE WithConfidence(g, SelectSeq(g.candidates, NotBest))

SuppressDominant(gs) == [j \in 1..Len(gs) |-> SuppressGroup(gs[j], gs)]

\* lines 853-858: the Map from an id to the number of groups it is the best of
BestCountByItemId(gs) ==
    [id \in {gs[j].candidates[1].itemId :
                j \in {i \in 1..Len(gs) : Len(gs[i].candidates) >= 1}} |->
        BestCount(gs, id)]

\* lines 860-882: one iteration of the loop on the group as it is now, with
\* the Map that was filled before the loop
SuppressStep(g, counts) ==
    IF Len(g.candidates) = 0 THEN g
    ELSE LET best == g.candidates[1]
             bestCount == IF best.itemId \in DOMAIN counts THEN counts[best.itemId] ELSE 0
             NotBest(c) == c.itemId # best.itemId
         IN  IF bestCount < DOMINANT_BEST_COUNT THEN g
             ELSE IF g.bestMargin >= MIN_AUTODETECT_MARGIN + DOMINANT_MARGIN_BONUS THEN g
             ELSE WithConfidence(g, SelectSeq(g.candidates, NotBest))

\* a plausible slip: the Map is filled again before every iteration
RECURSIVE SuppressLoopTalliesAgain(_, _, _, _)
SuppressLoopTalliesAgain(work, counts, order, k) ==
    IF k > Len(order) THEN work
    ELSE SuppressLoopTalliesAgain(
             [work EXCEPT ![order[k]] = SuppressStep(work[order[k]], BestCountByItemId(work))],
             counts, order, k + 1)

\* the loop of lines 860-883 over the groups in place, visiting them in the
\* given order
RECURSIVE SuppressLoop(_, _, _, _)
SuppressLoop(work, counts, order, k) ==
    IF k > Len(order) THEN work
    ELSE SuppressLoop([work EXCEPT ![order[k]] = SuppressStep(work[order[k]], counts)],
                      counts, order, k + 1)

\* the visiting orders of n groups
Reorderings(n) == {q \in [1..n -> 1..n] : \A a, b \in 1..n : a # b => q[a] # q[b]}

(***************************************************************************)
(* The contract                                                            *)
(***************************************************************************)
\* confidence is written in tenths: 0 is 0.0, 5 is 0.5
ItemCandidate(id, label, confidence, source, slot_index, meta) ==
    [kind |-> "item", id |-> id, label |-> label, confidence |-> confidence,
     source |-> source, slot_index |-> slot_index, meta |-> meta]

RECURSIVE CandidatesFromGroupsFrom(_, _)
CandidatesFromGroupsFrom(gs, j) ==
    IF j > Len(gs) THEN << >>
    ELSE [c \in 1..Len(gs[j].candidates) |->
             ItemCandidate(String(gs[j].candidates[c].itemId), gs[j].candidates[c].name,
                           0, "hash_match", gs[j].startSlot,
                           [score |-> gs[j].candidates[c].score,
                            group_span |-> gs[j].span])]
         \o CandidatesFromGroupsFrom(gs, j + 1)

\* a plausible slip: the position of the group among the groups is written
\* instead of its first slot
RECURSIVE CandidatesFromGroupsByPositionFrom(_, _)
CandidatesFromGroupsByPositionFrom(gs, j) ==
    IF j > Len(gs) THEN << >>
    ELSE [c \in 1..Len(gs[j].candidates) |->
             ItemCandidate(String(gs[j].candidates[c].itemId), gs[j].candidates[c].name,
                           0, "hash_match", j - 1,
                           [score |-> gs[j].candidates[c].score,
                            group_span |-> gs[j].span])]
         \o CandidatesFromGroupsByPositionFrom(gs, j + 1)

CandidatesFromGroupsByPosition(gs) == CandidatesFromGroupsByPositionFrom(gs, 1)

candidatesFromGroups(gs) == CandidatesFromGroupsFrom(gs, 1)

\* the UTF-16 code units of the strings that occur in signals
CodeUnits ==
    ("skeleton" :> <<115, 107, 101, 108, 101, 116, 111, 110>>) @@
    ("hash_match" :> <<104, 97, 115, 104, 95, 109, 97, 116, 99, 104>>) @@
    ("mode" :> <<109, 111, 100, 101>>) @@
    ("gate" :> <<103, 97, 116, 101>>) @@
    ("candidate" :> <<99, 97, 110, 100, 105, 100, 97, 116, 101>>) @@
    ("env" :> <<101, 110, 118>>) @@
    ("disabled" :> <<100, 105, 115, 97, 98, 108, 101, 100>>) @@
    ("no_matches" :> <<110, 111, 95, 109, 97, 116, 99, 104, 101, 115>>) @@
    ("ambiguous" :> <<97, 109, 98, 105, 103, 117, 111, 117, 115>>) @@
    ("class_candidates" :> <<99, 108, 97, 115, 115, 95, 99, 97, 110, 100, 105, 100, 97, 116, 101, 115>>) @@
    ("no_candidates" :> <<110, 111, 95, 99, 97, 110, 100, 105, 100, 97, 116, 101, 115>>) @@
    ("class_candidate" :> <<99, 108, 97, 115, 115, 95, 99, 97, 110, 100, 105, 100, 97, 116, 101>>) @@
    ("ambiguous_slot" :> <<97, 109, 98, 105, 103, 117, 111, 117, 115, 95, 115, 108, 111, 116>>) @@
    ("ITEM_CLASSIFY_MATCHING!=1" :> <<73, 84, 69, 77, 95, 67, 76, 65, 83, 83, 73, 70, 89, 95, 77, 65, 84, 67, 72, 73, 78, 71, 33, 61, 49>>) @@
    ("ITEM_CLASSIFY_MATCHING=1" :> <<73, 84, 69, 77, 95, 67, 76, 65, 83, 83, 73, 70, 89, 95, 77, 65, 84, 67, 72, 73, 78, 71, 61, 49>>)

\* meta: {}
NoMeta == [x \in {} |-> x]

Signal(source, type, value, meta) ==
    [source |-> source, type |-> type, value |-> value, weight |-> 1, meta |-> meta]

modeSignal(modeValue) == Signal("skeleton", "mode", modeValue, NoMeta)
gateSignal(value, meta) == Signal("skeleton", "gate", value, meta)
candidateSignal(value, meta) == Signal("skeleton", "candidate", value, meta)

\* String(slot).padStart(4, "0") for 0 <= slot < 10000, as code units
PadStart4(slot) ==
    <<48 + ((slot \div 1000) % 10), 48 + ((slot \div 100) % 10),
      48 + ((slot \div 10) % 10), 48 + (slot % 10)>>

\* `${s.source}|${s.type}|${slotKey}|${valueKey}` as code units
signalSortKey(s) ==
    LET slotKey == IF "slot_index" \in DOMAIN s.meta
                   THEN PadStart4(s.meta.slot_index)
                   ELSE <<122, 122, 122, 122>>
    IN  CodeUnits[s.source] \o <<124>> \o CodeUnits[s.type] \o <<124>>
        \o slotKey \o <<124>> \o CodeUnits[s.value]

\* ka < kb on strings: by code unit, a proper prefix is smaller
StringLess(ka, kb) ==
    LET diff == {i \in 1..Min(Len(ka), Len(kb)) : ka[i] # kb[i]}
    IN  IF diff = {} THEN Len(ka) < Len(kb)
        ELSE LET i == CHOOSE d \in diff : \A e \in diff : d <= e
             IN  ka[i] < kb[i]

\* s goes before the first signal whose key is strictly greater
InsertSignal(sorted, s) ==
    LET greater == {i \in 1..Len(sorted) :
                       StringLess(signalSortKey(s), signalSortKey(sorted[i]))}
        at == IF greater = {} THEN Len(sorted) + 1
              ELSE CHOOSE i \in greater : \A j \in greater : i <= j
    IN  SubSeq(sorted, 1, at - 1) \o <<s>> \o SubSeq(sorted, at, Len(sorted))

RECURSIVE SortSignalsPrefix(_, _)
SortSignalsPrefix(signals, n) ==
    IF n = 0 THEN << >>
    ELSE InsertSignal(SortSignalsPrefix(signals, n - 1), signals[n])

sortSignalsStable(signals) == SortSignalsPrefix(signals, Len(signals))

buildContract(status, items, classes, signals) ==
    [version |-> 1, status |-> status,
     candidates |-> [items |-> items, class |-> classes],
     evidence |-> [signals |-> sortSignalsStable(signals), notes |-> << >>]]

(***************************************************************************)
(* The environment of a request                                            *)
(***************************************************************************)
ITEM_HASH_CACHE_TTL_MS == 600000
MAX_HASHED == 300
HASH_CONCURRENCY == 6

\* bounds of the request specification
FreeSlots == 2
MaxReqCrops == 2
MaxCatalog == 2

\* The fingerprints that occur in requests: all three hashes have their first k
\* bits set, so two of them score 64 - |k1 - k2|. From a region of k = 0: 64,
\* 38 (the lowest candidate score) and 37 (just below it).
PoolK == {0, 26, 27}

FingerprintOfK == [k \in PoolK |-> Fingerprint(Ones(k), Ones(k), Ones(k))]

\* The pixel content of an upload, as far as the route reads it: what each slot
\* region hashes to (slotK) and what a region merged from several slots hashes
\* to (mergedK). The hashes are a pure function of the pixels (sharp's resize
\* and the three compute...Hash functions), so they are drawn with the input.
ImageContents ==
    {[slotK |-> [i \in 1..NUM_SLOTS |->
                    IF i <= FreeSlots THEN v[i] ELSE IF i % 2 = 0 THEN 27 ELSE 0],
      mergedK |-> m] : v \in [1..FreeSlots -> PoolK], m \in PoolK}

CropContents ==
    {c \in {[slotK |-> v, mergedK |-> m] :
                v \in UNION {[1..n -> PoolK] : n \in 0..MaxReqCrops}, m \in PoolK} :
        Len(c.slotK) < 2 => c.mergedK = 0}

DefaultContent == [slotK |-> [i \in 1..NUM_SLOTS |-> IF i % 2 = 0 THEN 27 ELSE 0],
                   mergedK |-> 0]

\* an upload whose first two slots hash alike and so are merged into one group
MergingContent == [slotK |-> [i \in 1..NUM_SLOTS |-> IF i <= 2 \/ i % 2 = 1 THEN 0 ELSE 27],
                   mergedK |-> 0]

\* cropToAHash64, cropToDHash64 and cropToPHash64 of one box of the upload
cropToHashes(content, box) ==
    IF box.width = 1 THEN FingerprintOfK[content.slotK[box.left + 1]]
    ELSE FingerprintOfK[content.mergedK]

\* the hashes of the region that spans the slots startSlot .. startSlot+span-1
MergedRegionHashes(content, startSlot, span) ==
    IF span = 1 THEN FingerprintOfK[content.slotK[startSlot + 1]]
    ELSE FingerprintOfK[content.mergedK]

ModeValues == {"", "disabled", "Disabled", "no_matches", "ambiguous",
               "class_candidates", "other"}

toLowerCase(str) == IF str = "Disabled" THEN "disabled" ELSE str

\* a plausible slip: the mode is compared without lowering its case
ModeOfCaseSensitive(r) ==
    IF r.mode \in {"disabled", "ambiguous", "no_matches", "class_candidates"}
    THEN r.mode ELSE "null"

\* lines 571-575: the recognised mode, or null
ModeOf(r) ==
    LET modeRaw == toLowerCase(r.mode)
    IN  IF modeRaw \in {"disabled", "ambiguous", "no_matches", "class_candidates"}
        THEN modeRaw ELSE "null"

Requests ==
    {[route |-> "contract", mode |-> "", file |-> "ok", slotsField |-> "absent",
      content |-> c] : c \in ImageContents}
    \cup {[route |-> "contract", mode |-> m, file |-> "ok", slotsField |-> "absent",
           content |-> DefaultContent] : m \in ModeValues \ {""}}
    \cup {[route |-> "contract", mode |-> "", file |-> f, slotsField |-> "absent",
           content |-> DefaultContent] : f \in {"absent", "no_dimensions", "corrupt"}}
    \cup {[route |-> "contract", mode |-> "", file |-> "absent", slotsField |-> "ok",
           content |-> DefaultContent]}
    \cup {[route |-> "slots", mode |-> "", file |-> "ok", slotsField |-> "absent",
           content |-> c] : c \in {d \in ImageContents : d.mergedK = 26}}
    \cup {[route |-> "slots", mode |-> "disabled", file |-> "ok", slotsField |-> "absent",
           content |-> DefaultContent]}
    \cup {[route |-> "slots", mode |-> "", file |-> "absent", slotsField |-> "ok",
           content |-> c] : c \in CropContents}
    \cup {[route |-> "slots", mode |-> "", file |-> "ok", slotsField |-> "ok",
           content |-> [slotK |-> <<0, 0>>, mergedK |-> 26]]}
    \cup {[route |-> "slots", mode |-> "", file |-> f, slotsField |-> "absent",
           content |-> DefaultContent] : f \in {"absent", "no_dimensions", "corrupt"}}
    \cup {[route |-> "slots", mode |-> "", file |-> "absent", slotsField |-> sf,
           content |-> DefaultContent] : sf \in {"invalid_json", "missing_png"}}
    \cup {[route |-> r, mode |-> "", file |-> "bad_merged_crop", slotsField |-> "absent",
           content |-> c] :
              r \in {"contract", "slots"},
              c \in {d \in ImageContents : d.slotK[1] = 0 /\ d.mergedK = 0}}
    \cup {[route |-> "contract", mode |-> "no_matches", file |-> f,
           slotsField |-> "absent", content |-> MergingContent] :
              f \in {"corrupt", "bad_merged_crop"}}

EnvValues == {"1", "0", "null"}

ItemNames == <<"item1", "item2", "item3", "item4", "item5", "item6", "item7",
               "item8", "item9">>
Urls == <<"u1", "u2", "u3", "u4", "u5", "u6", "u7", "u8", "u9">>

\* the name and the image URL of the j-th row
ItemName(j) == IF j <= Len(ItemNames) THEN ItemNames[j] ELSE "item" \o ToString(j)
Url(j) == IF j <= Len(Urls) THEN Urls[j] ELSE "u" \o ToString(j)

\* the rows the catalog query returns: distinct ids and image URLs
CatalogRows(n) ==
    [j \in 1..n |-> [id |-> j, name |-> ItemName(j), source_image_url |-> Url(j)]]

HasUrl(it) == it.source_image_url # ""

EmptyCache == [u \in {} |-> u]

CachedHash(fp, expiresAt) ==
    [aHash64 |-> fp.aHash64, dHash64 |-> fp.dHash64, pHash64 |-> fp.pHash64,
     expiresAt |-> expiresAt]

\* the cache as earlier requests may have left it: empty, or holding the first
\* URL, written TTL - 1 ms ago (fresh) or exactly TTL ago (expired)
CacheInits ==
    {EmptyCache,
     [u \in {"u1"} |-> CachedHash(FingerprintOfK[0], 2 * ITEM_HASH_CACHE_TTL_MS + 1)],
     [u \in {"u1"} |-> CachedHash(FingerprintOfK[0], 2 * ITEM_HASH_CACHE_TTL_MS)]}

NoResponse == [status |-> 0]

\* imageUrlToTripleHash threw: the fetch failed or timed out, or sharp threw
FetchFailed == [failed |-> TRUE]

\* what a fetch of a catalog image can give: one of two fingerprints, or a failure
FetchOutcomes == {FingerprintOfK[0], FingerprintOfK[26], FetchFailed}

\* hashOne's null
Null == [null |-> TRUE]

\* a hashOne call that awaits its fetch
Pending == [pending |-> TRUE]

\* no hashOne call was made
NoCalls == [i \in {} |-> Pending]

(***************************************************************************)
(* POST, step by step                                                      *)
(***************************************************************************)
\* bytes is set: the slots are cut from the uploaded image
HasBytes == req.slotsField = "absent" /\ req.file # "absent"

computeAdjacentDistances(sl) ==
    [i \in 1..(IF Len(sl) = 0 THEN 0 ELSE Len(sl) - 1) |->
        hammingDistanceHex64(sl[i].aHash64, sl[i + 1].aHash64)]

\* the fields every 200 response carries (imageSize and the debug crops are
\* pixel data and left out)
BaseBody(matchingEnabled) ==
    [slots |-> slots, adjacentDistances |-> computeAdjacentDistances(slots),
     groups |-> groups, groupMergeMaxAdjDist |-> GROUP_MERGE_MAX_ADJ_DIST,
     matchingEnv |-> matchingEnv, matchingEnabled |-> matchingEnabled]

WithClassification(body, classification) ==
    [f \in DOMAIN body \cup {"classification"} |->
        IF f = "classification" THEN classification ELSE body[f]]

WithCounts(body, itemCount, hashedItemCount) ==
    [f \in DOMAIN body \cup {"itemCount", "hashedItemCount"} |->
        IF f = "itemCount" THEN itemCount
        ELSE IF f = "hashedItemCount" THEN hashedItemCount
        ELSE body[f]]

Return(status, body) ==
    /\ response' = [status |-> status, body |-> body]
    /\ pc' = "done"

ReturnError(status, message) == Return(status, [error |-> message])

InitRequest ==
    /\ req \in Requests
    /\ matchingEnv \in EnvValues
    /\ itemHashCache \in CacheInits
    /\ now = 2 * ITEM_HASH_CACHE_TTL_MS
    /\ pc = "start"
    /\ boxes = << >>
    /\ slots = << >>
    /\ groups = << >>
    /\ catalog = << >>
    /\ itemHashes = << >>
    /\ batchStart = 0
    /\ response = NoResponse
    /\ queryError = "unset"
    /\ hashCalls = NoCalls
    /\ fetchStarts = << >>
    /\ requestTimedOut = FALSE

\* no request is being handled (the pure-function specifications)
IdleRequest ==
    /\ req = [route |-> "none"]
    /\ matchingEnv = "null"
    /\ itemHashCache = EmptyCache
    /\ now = 0
    /\ pc = "idle"
    /\ boxes = << >>
    /\ slots = << >>
    /\ groups = << >>
    /\ catalog = << >>
    /\ itemHashes = << >>
    /\ batchStart = 0
    /\ response = NoResponse
    /\ queryError = "unset"
    /\ hashCalls = NoCalls
    /\ fetchStarts = << >>
    /\ requestTimedOut = FALSE

\* lines 580-582 and 1411-1419: neither form field is usable
RejectMissingInput ==
    /\ pc = "start"
    /\ req.file = "absent"
    /\ req.route = "contract" \/ req.slotsField = "absent"
    /\ ReturnError(400, IF req.route = "contract" THEN "Missing form field 'image'"
                        ELSE "Missing form field 'image' or 'slots'")
    /\ UNCHANGED <<call, ret, req, matchingEnv, boxes, slots, groups, catalog,
                   itemHashes, batchStart, itemHashCache, now,
                   hashCalls, fetchStarts, requestTimedOut, queryError>>

\* lines 1426-1439: the slots field does not parse, or a crop has no PNG
ReadSlotsFails ==
    /\ pc = "start"
    /\ req.route = "slots"
    /\ req.slotsField \in {"invalid_json", "missing_png"}
    /\ ReturnError(400, IF req.slotsField = "invalid_json" THEN "SyntaxError"
                        ELSE "Slot 0 missing pngBase64")
    /\ UNCHANGED <<call, ret, req, matchingEnv, boxes, slots, groups, catalog,
                   itemHashes, batchStart, itemHashCache, now,
                   hashCalls, fetchStarts, requestTimedOut, queryError>>

\* lines 1426-1433: buildSlotsFromCrops hashes every supplied crop; the boxes
\* default to { left: index, top: 0, width: 0, height: 0 }
ReadSlots ==
    /\ pc = "start"
    /\ req.route = "slots"
    /\ req.slotsField = "ok"
    /\ slots' = [i \in 1..Len(req.content.slotK) |->
                    SlotFeature(i - 1, CropBox(0, 0, 0, 0),
                                FingerprintOfK[req.content.slotK[i]])]
    /\ boxes' = [i \in 1..Len(req.content.slotK) |-> CropBox(i - 1, 0, 0, 0)]
    /\ pc' = "slots"
    /\ UNCHANGED <<call, ret, req, matchingEnv, groups, catalog, itemHashes,
                   batchStart, itemHashCache, now, response,
                   hashCalls, fetchStarts, requestTimedOut, queryError>>

\* lines 585-587 and 1442-1444: getImageSize or the band detection throws, and
\* the catch at the end of POST answers 500
ReadImageFails ==
    /\ pc = "start"
    /\ req.route = "contract" \/ req.slotsField = "absent"
    /\ req.file \in {"no_dimensions", "corrupt"}
    /\ ReturnError(500, IF req.file = "no_dimensions"
                        THEN "Unable to read image dimensions"
                        ELSE "sharp error")
    /\ UNCHANGED <<call, ret, req, matchingEnv, boxes, slots, groups, catalog,
                   itemHashes, batchStart, itemHashCache, now,
                   hashCalls, fetchStarts, requestTimedOut, queryError>>

\* lines 584-600 and 1441-1456: ten boxes, each hashed three ways
ReadImage ==
    /\ pc = "start"
    /\ req.route = "contract" \/ req.slotsField = "absent"
    /\ req.file \in {"ok", "bad_merged_crop"}
    /\ boxes' = [i \in 1..NUM_SLOTS |-> CropBox(i - 1, 0, 1, 1)]
    /\ slots' = [i \in 1..NUM_SLOTS |->
                    SlotFeature(i - 1, boxes'[i], cropToHashes(req.content, boxes'[i]))]
    /\ pc' = "slots"
    /\ UNCHANGED <<call, ret, req, matchingEnv, groups, catalog, itemHashes,
                   batchStart, itemHashCache, now, response,
                   hashCalls, fetchStarts, requestTimedOut, queryError>>

\* lines 614 and 1471
BuildGroups ==
    /\ pc = "slots"
    /\ groups' = buildGroups(slots)
    /\ pc' = "grouped"
    /\ UNCHANGED <<call, ret, req, matchingEnv, boxes, slots, catalog, itemHashes,
                   batchStart, itemHashCache, now, response,
                   hashCalls, fetchStarts, requestTimedOut, queryError>>

\* g.aHash64 = ..., g.dHash64 = ..., g.pHash64 = ... of the merged box
WithHashes(g, fp) ==
    [g EXCEPT !.aHash64 = fp.aHash64, !.dHash64 = fp.dHash64, !.pHash64 = fp.pHash64]

\* sharp throws on the crop of a box merged from several slots (the crops of
\* the single slots were made before)
MergedCropFails ==
    /\ HasBytes
    /\ req.file = "bad_merged_crop"
    /\ \E j \in 1..Len(groups) : groups[j].span > 1

\* a plausible slip: a group whose merged crop fails keeps its first slot's hashes
RehashGroupsSkipsFailedCrop ==
    /\ pc = "grouped"
    /\ MergedCropFails
    /\ pc' = "hashed"
    /\ UNCHANGED <<call, ret, req, matchingEnv, boxes, slots, groups, catalog, itemHashes,
                   batchStart, itemHashCache, now, response,
                   hashCalls, fetchStarts, requestTimedOut, queryError>>

\* lines 617-626, 912-914 and 1474-1485: a crop of a merged box throws, and the
\* catch at the end of POST answers 500
RehashGroupsFails ==
    /\ pc = "grouped"
    /\ MergedCropFails
    /\ ReturnError(500, "sharp error")
    /\ UNCHANGED <<call, ret, req, matchingEnv, boxes, slots, groups, catalog, itemHashes,
                   batchStart, itemHashCache, now,
                   hashCalls, fetchStarts, requestTimedOut, queryError>>

\* lines 617-626: every group is hashed again over its merged box
RehashGroups ==
    /\ pc = "grouped"
    /\ ~MergedCropFails
    /\ req.route = "contract"
    /\ groups' = [j \in 1..Len(groups) |->
                    WithHashes(groups[j],
                               cropToHashes(req.content,
                                            mergeSlotBoxes(boxes, groups[j].startSlot,
                                                           groups[j].span)))]
    /\ pc' = "hashed"
    /\ UNCHANGED <<call, ret, req, matchingEnv, boxes, slots, catalog, itemHashes,
                   batchStart, itemHashCache, now, response,
                   hashCalls, fetchStarts, requestTimedOut, queryError>>

\* lines 1474-1485: the same, but only when there are image bytes
RehashGroupsIfBytes ==
    /\ pc = "grouped"
    /\ ~MergedCropFails
    /\ req.route = "slots"
    /\ groups' = IF HasBytes
                 THEN [j \in 1..Len(groups) |->
                          WithHashes(groups[j],
                                     cropToHashes(req.content,
                                                  mergeSlotBoxes(boxes, groups[j].startSlot,
                                                                 groups[j].span)))]
                 ELSE groups
    /\ pc' = "hashed"
    /\ UNCHANGED <<call, ret, req, matchingEnv, boxes, slots, catalog, itemHashes,
                   batchStart, itemHashCache, now, response,
                   hashCalls, fetchStarts, requestTimedOut, queryError>>

\* the skeleton branches read mode, which only the contract version parses
Forced(mode) ==
    /\ pc = "hashed"
    /\ req.route = "contract"
    /\ ModeOf(req) = mode

\* lines 630-644
ForcedDisabled ==
    /\ Forced("disabled")
    /\ Return(200, WithClassification(BaseBody(FALSE),
                       buildContract("disabled", << >>, << >>,
                                     <<modeSignal("disabled")>>)))
    /\ UNCHANGED <<call, ret, req, matchingEnv, boxes, slots, groups, catalog,
                   itemHashes, batchStart, itemHashCache, now,
                   hashCalls, fetchStarts, requestTimedOut, queryError>>

\* lines 646-660
ForcedNoMatches ==
    /\ Forced("no_matches")
    /\ Return(200, WithClassification(BaseBody(FALSE),
                       buildContract("no_matches", << >>, << >>,
                                     <<modeSignal("no_matches"),
                                       gateSignal("no_candidates", NoMeta)>>)))
    /\ UNCHANGED <<call, ret, req, matchingEnv, boxes, slots, groups, catalog,
                   itemHashes, batchStart, itemHashCache, now,
                   hashCalls, fetchStarts, requestTimedOut, queryError>>

\* lines 662-693
ForcedClassCandidates ==
    /\ Forced("class_candidates")
    /\ LET classCandidates ==
               <<[kind |-> "class", id |-> "unknown_class", label |-> "Unknown Class",
                  confidence |-> 5, source |-> "skeleton", slot_index |-> 0,
                  meta |-> NoMeta]>>
           status == IF Len(classCandidates) = 1 THEN "matches" ELSE "ambiguous"
       IN  Return(200, WithClassification(BaseBody(FALSE),
                       buildContract(status, << >>, classCandidates,
                           <<modeSignal("class_candidates"),
                             candidateSignal("class_candidate",
                                 [slot_index |-> 0, id |-> "unknown_class",
                                  label |-> "Unknown Class"])>>)))
    /\ UNCHANGED <<call, ret, req, matchingEnv, boxes, slots, groups, catalog,
                   itemHashes, batchStart, itemHashCache, now,
                   hashCalls, fetchStarts, requestTimedOut, queryError>>

\* lines 695-732
ForcedAmbiguous ==
    /\ Forced("ambiguous")
    /\ LET items ==
               <<ItemCandidate("unknown_item_a", "Unknown Item", 5, "skeleton", 0, NoMeta),
                 ItemCandidate("unknown_item_b", "Unknown Item", 5, "skeleton", 0, NoMeta)>>
       IN  Return(200, WithClassification(BaseBody(FALSE),
                       buildContract("ambiguous", items, << >>,
                           <<modeSignal("ambiguous"),
                             gateSignal("ambiguous_slot", [slot_index |-> 0])>>)))
    /\ UNCHANGED <<call, ret, req, matchingEnv, boxes, slots, groups, catalog,
                   itemHashes, batchStart, itemHashCache, now,
                   hashCalls, fetchStarts, requestTimedOut, queryError>>

\* no skeleton branch was taken
PastSkeleton ==
    /\ pc = "hashed"
    /\ req.route = "contract" => ModeOf(req) = "null"

\* lines 735-760 and 1487-1502: the matching flag is not "1"
MatchingDisabled ==
    /\ PastSkeleton
    /\ matchingEnv # "1"
    /\ Return(200,
              IF req.route = "contract"
              THEN WithClassification(BaseBody(FALSE),
                       buildContract("disabled", << >>, << >>,
                           <<Signal("hash_match", "env", "ITEM_CLASSIFY_MATCHING!=1",
                                    [matchingEnv |-> matchingEnv])>>))
              ELSE BaseBody(FALSE))
    /\ UNCHANGED <<call, ret, req, matchingEnv, boxes, slots, groups, catalog,
                   itemHashes, batchStart, itemHashCache, now,
                   hashCalls, fetchStarts, requestTimedOut, queryError>>

\* a plausible slip: the error is not tested and (items ?? []) is hashed
QueryFailureReadAsEmpty ==
    /\ PastSkeleton
    /\ matchingEnv = "1"
    /\ queryError' = "error.message"
    /\ catalog' = << >>
    /\ itemHashes' = << >>
    /\ batchStart' = 0
    /\ pc' = "hashing"
    /\ UNCHANGED <<call, ret, req, matchingEnv, boxes, slots, groups, itemHashCache,
                   now, response, hashCalls, fetchStarts, requestTimedOut>>

\* lines 765-773 and 1507-1518: the catalog query answers with an error
QueryCatalogFails ==
    /\ PastSkeleton
    /\ matchingEnv = "1"
    /\ queryError' = "error.message"
    /\ ReturnError(500, "Supabase bazaar_items query failed")
    /\ UNCHANGED <<call, ret, req, matchingEnv, boxes, slots, groups, catalog,
                   itemHashes, batchStart, itemHashCache, now,
                   hashCalls, fetchStarts, requestTimedOut>>

\* lines 765-782 and 1507-1533: the catalog query answers with n rows
QueryCatalog ==
    /\ PastSkeleton
    /\ matchingEnv = "1"
    /\ \E n \in 0..MaxCatalog : catalog' = SelectSeq(CatalogRows(n), HasUrl)
    /\ queryError' = "null"
    /\ itemHashes' = << >>
    /\ batchStart' = 0
    /\ pc' = "hashing"
    /\ UNCHANGED <<call, ret, req, matchingEnv, boxes, slots, groups, itemHashCache,
                   now, response,
                   hashCalls, fetchStarts, requestTimedOut>>

\* cached && cached.expiresAt > now
CacheHit(it, cache, t) ==
    /\ it.source_image_url \in DOMAIN cache
    /\ cache[it.source_image_url].expiresAt > t

\* a plausible slip: an entry is still used at the instant it expires
HashOneUsesExpiring(it, fetched, cache, t) ==
    LET cacheKey == it.source_image_url
        hit == cacheKey \in DOMAIN cache /\ cache[cacheKey].expiresAt >= t
        Hashed(h) == [id |-> it.id, name |-> it.name, aHash64 |-> h.aHash64,
                      dHash64 |-> h.dHash64, pHash64 |-> h.pHash64]
    IN  IF hit THEN [r |-> Hashed(cache[cacheKey]), set |-> FALSE]
        ELSE IF fetched = FetchFailed THEN [r |-> Null, set |-> FALSE]
        ELSE [r |-> Hashed(fetched), set |-> TRUE, key |-> cacheKey,
              value |-> CachedHash(fetched, t + ITEM_HASH_CACHE_TTL_MS)]

\* lines 784-811: hashOne of one row. fetched is what imageUrlToTripleHash
\* would give (it is only called on a miss); cache and t are read when the
\* call starts.
hashOne(it, fetched, cache, t) ==
    LET cacheKey == it.source_image_url
        hit == cacheKey \in DOMAIN cache /\ cache[cacheKey].expiresAt > t
        Hashed(h) == [id |-> it.id, name |-> it.name, aHash64 |-> h.aHash64,
                      dHash64 |-> h.dHash64, pHash64 |-> h.pHash64]
    IN  IF hit THEN [r |-> Hashed(cache[cacheKey]), set |-> FALSE]
        ELSE IF fetched = FetchFailed THEN [r |-> Null, set |-> FALSE]
        ELSE [r |-> Hashed(fetched), set |-> TRUE, key |-> cacheKey,
              value |-> CachedHash(fetched, t + ITEM_HASH_CACHE_TTL_MS)]

\* a plausible slip: a null result ends the loop (break instead of continue)
RECURSIVE PushResultsStopsAtNull(_, _, _)
PushResultsStopsAtNull(hashes, results, j) ==
    IF j > Len(results) THEN hashes
    ELSE IF results[j].r = Null THEN hashes
    ELSE IF Len(hashes) + 1 >= MAX_HASHED THEN Append(hashes, results[j].r)
    ELSE PushResultsStopsAtNull(Append(hashes, results[j].r), results, j + 1)

\* a plausible slip: the inner loop has no break at MAX_HASHED
RECURSIVE PushResultsNoBreak(_, _, _)
PushResultsNoBreak(hashes, results, j) ==
    IF j > Len(results) THEN hashes
    ELSE IF results[j].r = Null THEN PushResultsNoBreak(hashes, results, j + 1)
    ELSE PushResultsNoBreak(Append(hashes, results[j].r), results, j + 1)

\* lines 816-820: the results of a batch are pushed in order, up to MAX_HASHED
RECURSIVE PushResults(_, _, _)
PushResults(hashes, results, j) ==
    IF j > Len(results) THEN hashes
    ELSE IF results[j].r = Null THEN PushResults(hashes, results, j + 1)
    ELSE IF Len(hashes) + 1 >= MAX_HASHED THEN Append(hashes, results[j].r)
    ELSE PushResults(Append(hashes, results[j].r), results, j + 1)

\* a plausible slip: a key that is present only has its expiry renewed
CacheAfterRenewsOnly(cache, results) ==
    LET written == {j \in 1..Len(results) : results[j].set}
        keys == {results[j].key : j \in written}
        Value(u) == results[CHOOSE j \in written : results[j].key = u].value
    IN  [u \in DOMAIN cache \cup keys |->
            IF u \in keys
            THEN IF u \in DOMAIN cache
                 THEN [cache[u] EXCEPT !.expiresAt = Value(u).expiresAt]
                 ELSE Value(u)
            ELSE cache[u]]

\* itemHashCache.set of every result that was fetched
CacheAfter(cache, results) ==
    LET written == {j \in 1..Len(results) : results[j].set}
        keys == {results[j].key : j \in written}
    IN  [u \in DOMAIN cache \cup keys |->
            IF u \in keys
            THEN results[CHOOSE j \in written : results[j].key = u].value
            ELSE cache[u]]

\* the condition of the hashing loop
MoreToHash == batchStart < Len(catalog) /\ Len(itemHashes) < MAX_HASHED

\* a plausible slip: every remaining row is hashed at once
BatchEndWholeRest(i, n) == n

\* the last row (1-based) of candidates.slice(i, i + HASH_CONCURRENCY)
BatchEnd(i, n) == Min(i + HASH_CONCURRENCY, n)

\* the rows (1-based) of the batch the loop is at
BatchRows == (batchStart + 1)..BatchEnd(batchStart, Len(catalog))

\* the hashOne calls whose fetch has not settled
InFlight == {i \in DOMAIN hashCalls : hashCalls[i] = Pending}

\* lines 814-815: batch.map(hashOne) calls hashOne on every row of the batch;
\* each call runs to its first await: a hit returns the cached hashes, a miss
\* starts the fetch of the image
StartBatch ==
    /\ pc = "hashing"
    /\ MoreToHash
    /\ LET missed == SelectSeq([j \in 1..(BatchEnd(batchStart, Len(catalog)) - batchStart) |->
                                   catalog[batchStart + j]],
                               LAMBDA it : ~CacheHit(it, itemHashCache, now))
       IN  /\ hashCalls' =
                 [i \in DOMAIN hashCalls \cup BatchRows |->
                     IF i \in BatchRows
                     THEN IF CacheHit(catalog[i], itemHashCache, now)
                          THEN hashOne(catalog[i], FetchFailed, itemHashCache, now)
                          ELSE Pending
                     ELSE hashCalls[i]]
           /\ fetchStarts' = fetchStarts \o
                 [j \in 1..Len(missed) |-> missed[j].source_image_url]
    /\ pc' = "awaiting"
    /\ UNCHANGED <<call, ret, req, matchingEnv, boxes, slots, groups, catalog,
                   itemHashes, batchStart, itemHashCache, now, response, queryError,
                   requestTimedOut>>

\* lines 800-810: the fetch of one row settles: the image arrives and is
\* hashed, or the fetch fails, is aborted after FETCH_TIMEOUT_MS, or sharp
\* throws. The miss was decided when the call started.
FetchSettles ==
    /\ pc = "awaiting"
    /\ \E i \in InFlight, fetched \in FetchOutcomes :
          LET result == hashOne(catalog[i], fetched, EmptyCache, now)
          IN  /\ hashCalls' = [hashCalls EXCEPT ![i] = result]
              /\ itemHashCache' = CacheAfter(itemHashCache, <<result>>)
    /\ UNCHANGED <<call, ret, req, matchingEnv, pc, boxes, slots, groups, catalog,
                   itemHashes, batchStart, now, response, queryError, fetchStarts,
                   requestTimedOut>>

\* lines 815-820: Promise.all resolves once every call of the batch has
\* settled; the results are pushed and the loop steps to the next batch
FinishBatch ==
    /\ pc = "awaiting"
    /\ InFlight = {}
    /\ LET results == [j \in 1..(BatchEnd(batchStart, Len(catalog)) - batchStart) |->
                          hashCalls[batchStart + j]]
       IN  itemHashes' = PushResults(itemHashes, results, 1)
    /\ batchStart' = batchStart + HASH_CONCURRENCY
    /\ pc' = "hashing"
    /\ UNCHANGED <<call, ret, req, matchingEnv, boxes, slots, groups, catalog,
                   itemHashCache, now, response, queryError, hashCalls, fetchStarts,
                   requestTimedOut>>

\* the caller's deadline passes while the hashing loop runs; POST reads no
\* signal of it
RequestTimesOut ==
    /\ pc \in {"hashing", "awaiting"}
    /\ ~requestTimedOut
    /\ requestTimedOut' = TRUE
    /\ UNCHANGED <<call, ret, req, matchingEnv, pc, boxes, slots, groups, catalog,
                   itemHashes, batchStart, itemHashCache, now, response, queryError,
                   hashCalls, fetchStarts>>

\* lines 823-848: the matching loop over the groups
MatchGroups ==
    /\ pc = "hashing"
    /\ ~MoreToHash
    /\ groups' = [j \in 1..Len(groups) |-> MatchGroup(groups[j], itemHashes)]
    /\ pc' = "matched"
    /\ UNCHANGED <<call, ret, req, matchingEnv, boxes, slots, catalog, itemHashes,
                   batchStart, itemHashCache, now, response,
                   hashCalls, fetchStarts, requestTimedOut, queryError>>

\* lines 850-883: the suppression loop over the groups
SuppressDominantItems ==
    /\ pc = "matched"
    /\ groups' = SuppressDominant(groups)
    /\ pc' = "resolved"
    /\ UNCHANGED <<call, ret, req, matchingEnv, boxes, slots, catalog, itemHashes,
                   batchStart, itemHashCache, now, response,
                   hashCalls, fetchStarts, requestTimedOut, queryError>>

\* lines 885-911 and 1655-1668: the response of a request that was matched
Respond ==
    /\ pc = "resolved"
    /\ LET contractItems == candidatesFromGroups(groups)
           derivedStatus == deriveStatusFromCandidates(contractItems, FALSE)
           body == WithCounts(BaseBody(TRUE), Len(catalog), Len(itemHashes))
       IN  Return(200,
                  IF req.route = "contract"
                  THEN WithClassification(body,
                           buildContract(derivedStatus, contractItems, << >>,
                               <<Signal("hash_match", "env", "ITEM_CLASSIFY_MATCHING=1",
                                        [matchingEnv |-> matchingEnv])>>))
                  ELSE body)
    /\ UNCHANGED <<call, ret, req, matchingEnv, boxes, slots, groups, catalog,
                   itemHashes, batchStart, itemHashCache, now,
                   hashCalls, fetchStarts, requestTimedOut, queryError>>

Init ==
    /\ call = << >>
    /\ ret = << >>
    /\ InitRequest

Next ==
    \/ RejectMissingInput
    \/ ReadSlotsFails
    \/ ReadSlots
    \/ ReadImageFails
    \/ ReadImage
    \/ BuildGroups
    \/ RehashGroupsFails
    \/ RehashGroups
    \/ RehashGroupsIfBytes
    \/ ForcedDisabled
    \/ ForcedNoMatches
    \/ ForcedClassCandidates
    \/ ForcedAmbiguous
    \/ MatchingDisabled
    \/ QueryCatalogFails
    \/ QueryCatalog
    \/ StartBatch
    \/ FetchSettles
    \/ FinishBatch
    \/ MatchGroups
    \/ SuppressDominantItems
    \/ Respond

Spec == Init /\ [][Next]_vars

(***************************************************************************)
(* Claims about the route                                                  *)
(***************************************************************************)
\* POST answered 200
Answered == pc = "done" /\ response.status = 200

\* POST answered with a classification contract
ContractReturned == Answered /\ "classification" \in DOMAIN response.body

\* the ?mode value as the route compares it
ForcedMode == toLowerCase(req.mode)

\* a status 'disabled' comes with empty candidate lists and a signal
DisabledIsDocumented ==
    response.body.classification.status = "disabled" =>
        /\ response.body.classification.candidates.items = << >>
        /\ response.body.classification.candidates.class = << >>
        /\ Len(response.body.classification.evidence.signals) >= 1

\* C4 as stated: in every returned contract the status is 'disabled' if and
\* only if the forced mode is 'disabled' or the matching flag is not enabled;
\* a 'disabled' contract has empty candidate lists and at least one signal.
C4_DisabledIffSkipped ==
    ContractReturned =>
        /\ response.body.classification.status = "disabled" <=>
              (ForcedMode = "disabled" \/ matchingEnv # "1")
        /\ DisabledIsDocumented

\* C4 amended: in every returned contract the status is 'disabled' if and only
\* if the forced mode is 'disabled', or no skeleton mode is forced and the
\* matching flag is not enabled; a 'disabled' contract has empty candidate
\* lists and at least one signal.
C4_DisabledIffSkippedUnforced ==
    ContractReturned =>
        /\ response.body.classification.status = "disabled" <=>
              \/ ForcedMode = "disabled"
              \/ /\ ForcedMode \notin {"ambiguous", "no_matches", "class_candidates"}
                 /\ matchingEnv # "1"
        /\ DisabledIsDocumented

\* the flag is unset and the mode is not a recognised one: 'disabled', with the
\* environment signal
C4_Witness ==
    /\ ContractReturned
    /\ req.mode = "other"
    /\ matchingEnv = "null"
    /\ response.body.classification.status = "disabled"
    /\ response.body.classification.evidence.signals[1].value = "ITEM_CLASSIFY_MATCHING!=1"

\* C7: on every input path, once the groups are fixed, each group's
\* fingerprint (the one matched and returned) is the fingerprint of the merged
\* region that spans the group's slots.
C7_GroupsCarryMergedFingerprint ==
    (pc \in {"hashed", "hashing", "matched", "resolved"} \/ Answered) =>
        \A j \in 1..Len(groups) :
            LET merged == MergedRegionHashes(req.content, groups[j].startSlot,
                                             groups[j].span)
            IN  /\ groups[j].aHash64 = merged.aHash64
                /\ groups[j].dHash64 = merged.dHash64
                /\ groups[j].pHash64 = merged.pHash64

\* the catalog query answered without an error
QuerySucceeded == queryError = "null"

\* the hashing loop is over and the groups were matched
Matched == pc \in {"matched", "resolved"} \/ (Answered /\ QuerySucceeded)

\* C11: when the catalog query succeeds and returns no entries, every group
\* ends with zero candidates and the returned contract has status
\* 'no_matches' and an empty items list.
C11_EmptyCatalogIsNoMatches ==
    (Matched /\ Len(catalog) = 0) =>
        /\ \A j \in 1..Len(groups) : groups[j].candidates = << >>
        /\ ContractReturned =>
              /\ response.body.classification.status = "no_matches"
              /\ response.body.classification.candidates.items = << >>

\* a contract for an image of several groups against an empty catalog
C11_Witness ==
    /\ ContractReturned
    /\ QuerySucceeded
    /\ catalog = << >>
    /\ response.body.itemCount = 0
    /\ Len(response.body.groups) > 1
    /\ response.body.classification.status = "no_matches"

\* the results of the hashOne calls that did not fail, in catalog order
RECURSIVE SucceededFrom(_)
SucceededFrom(i) ==
    IF i \notin DOMAIN hashCalls THEN << >>
    ELSE IF hashCalls[i] = Pending \/ hashCalls[i].r = Null THEN SucceededFrom(i + 1)
    ELSE <<hashCalls[i].r>> \o SucceededFrom(i + 1)

Succeeded == SucceededFrom(1)

\* some hashOne call of the request failed
SomeEntryFailed ==
    \E i \in DOMAIN hashCalls : hashCalls[i] # Pending /\ hashCalls[i].r = Null

\* C12: a failed fetch or hash of one entry does not fail the request; no URL
\* is fetched twice in a request; the match set is the entries that were
\* hashed, in order, up to the cap; and every candidate of a group is such an
\* entry scored on its own hashes, every entry that scores at least 38 being a
\* candidate while there is room.
C12_FailedEntriesAreLeftOut ==
    /\ \A a, b \in 1..Len(fetchStarts) : a # b => fetchStarts[a] # fetchStarts[b]
    /\ (pc = "done" /\ SomeEntryFailed) => response.status = 200
    /\ Matched => itemHashes = SubSeq(Succeeded, 1, Min(MAX_HASHED, Len(Succeeded)))
    /\ pc = "matched" =>
          \A j \in 1..Len(groups) :
              LET g == groups[j]
                  own == [k \in 1..Len(itemHashes) |->
                             scoreTripleHash(g.aHash64, g.dHash64, g.pHash64,
                                             itemHashes[k].aHash64, itemHashes[k].dHash64,
                                             itemHashes[k].pHash64)]
              IN  /\ \A c \in 1..Len(g.candidates) :
                        \E k \in 1..Len(itemHashes) :
                            /\ itemHashes[k].id = g.candidates[c].itemId
                            /\ own[k] = g.candidates[c].score
                  /\ \A k \in 1..Len(itemHashes) :
                        (own[k] >= MIN_SCORE_CANDIDATE /\ Len(g.candidates) < TOP_N) =>
                            \E c \in 1..Len(g.candidates) :
                                g.candidates[c].itemId = itemHashes[k].id

\* the first entry's fetch failed, the second entry is a candidate
C12_Witness ==
    /\ pc = "matched"
    /\ Len(catalog) = 2
    /\ hashCalls[1].r = Null
    /\ Len(itemHashes) = 1
    /\ \E j \in 1..Len(groups) :
          /\ Len(groups[j].candidates) = 1
          /\ groups[j].candidates[1].itemId = 2

\* C13: when the catalog query fails, the route answers with an error that
\* carries no classification contract, and nothing is fetched, matched or
\* written to the cache for the request.
C13_QueryFailureIsAnError ==
    (queryError \notin {"unset", "null"}) =>
        /\ pc = "done"
        /\ response.status = 500
        /\ DOMAIN response.body = {"error"}
        /\ fetchStarts = << >>
        /\ hashCalls = NoCalls
        /\ itemHashes = << >>
        /\ \A j \in 1..Len(groups) : groups[j].candidates = << >>
        /\ itemHashCache \in CacheInits

\* the query failed for an image whose groups were already built
C13_Witness ==
    /\ queryError = "error.message"
    /\ pc = "done"
    /\ response.status = 500
    /\ Len(groups) > 1

\* the request reads the uploaded image (and not pre-cut crops)
ReadsImage == req.route = "contract" \/ req.slotsField = "absent"

\* reading the dimensions, cutting or hashing a slot, or hashing a group fails
\* for the request
StepFails ==
    \/ ReadsImage /\ req.file \in {"no_dimensions", "corrupt"}
    \/ MergedCropFails
    \/ req.route = "slots" /\ req.slotsField \in {"invalid_json", "missing_png"}

\* C26: a request for which reading the image dimensions, the segmentation or
\* the fingerprinting of a slot or of a group fails is answered with an error
\* that carries no classification, no slots and no groups, and no catalog
\* query is made for it.
C26_FingerprintFailureAbortsRequest ==
    StepFails =>
        /\ queryError = "unset"
        /\ fetchStarts = << >>
        /\ hashCalls = NoCalls
        /\ pc \in {"start", "grouped", "done"}
        /\ pc = "done" =>
              /\ response.status \in {400, 500}
              /\ "error" \in DOMAIN response.body
              /\ DOMAIN response.body \cap {"classification", "slots", "groups"} = {}

\* the slots were cut and hashed and the groups built, then the crop of a
\* merged group failed: the answer is the error alone, with matching enabled
C26_Witness ==
    /\ pc = "done"
    /\ req.file = "bad_merged_crop"
    /\ matchingEnv = "1"
    /\ Len(slots) = NUM_SLOTS
    /\ \E j \in 1..Len(groups) : groups[j].span > 1
    /\ response.status = 500
    /\ DOMAIN response.body = {"error"}

\* the status of the skeleton contract of a recognised mode (lines 628-733)
SkeletonStatus(mode) == IF mode = "class_candidates" THEN "matches" ELSE mode

\* no matching work was done for the request: no catalog query, no reference
\* image fetched, no cache entry read or written
NoMatchingWork ==
    /\ queryError = "unset"
    /\ fetchStarts = << >>
    /\ hashCalls = NoCalls
    /\ itemHashes = << >>

\* the answer is the skeleton contract of the mode
SkeletonReturned(mode) ==
    /\ ContractReturned
    /\ response.body.classification.status = SkeletonStatus(mode)
    /\ \E k \in DOMAIN response.body.classification.evidence.signals :
          /\ response.body.classification.evidence.signals[k].type = "mode"
          /\ response.body.classification.evidence.signals[k].value = mode
    /\ \A k \in DOMAIN response.body.classification.evidence.signals :
          response.body.classification.evidence.signals[k].source = "skeleton"

\* C27: a request with a recognised ?mode (disabled, no_matches, ambiguous,
\* class_candidates, in any case) does no matching work - no catalog query, no
\* reference image fetched, no cache read or write - and is answered with the
\* skeleton contract of that mode, whatever the matching flag.
C27_ForcedModeSkipsMatching ==
    (ModeOf(req) # "null" /\ ~StepFails) =>
        /\ NoMatchingWork
        /\ (pc = "done" /\ response.status # 400) => SkeletonReturned(ModeOf(req))

\* the same for the version of the route that parses ?mode (lines 568-915);
\* there an unrecognised mode is handled as no mode at all
ForcedModeSkipsMatchingWhereParsed ==
    req.route = "contract" =>
        /\ C27_ForcedModeSkipsMatching
        /\ (ModeOf(req) = "null" /\ Answered /\ matchingEnv = "1") => QuerySucceeded

(***************************************************************************)
(* The hashing loop on long catalogs                                       *)
(***************************************************************************)
MaxLoopCatalog == 7
MaxEarlierFailures == 2
MaxCapFetches == 2

\* a request for one pre-cut crop, as POST holds it when the query has answered
LoopRequest ==
    [route |-> "slots", file |-> "absent", mode |-> "", slotsField |-> "ok",
     content |-> [slotK |-> <<0>>, mergedK |-> 26]]

LoopSlots == <<SlotFeature(0, CropBox(0, 0, 0, 0), FingerprintOfK[0])>>

\* the rows of a catalog long enough to cross MAX_HASHED inside a batch
CapCatalog == CatalogRows(MAX_HASHED + HASH_CONCURRENCY + 2)

\* the hashOne calls of the first MAX_HASHED rows, the first f having failed
CapCalls(f) ==
    [i \in 1..MAX_HASHED |->
        IF i <= f THEN [r |-> Null, set |-> FALSE]
        ELSE hashOne(CapCatalog[i], FingerprintOfK[0], EmptyCache,
                     2 * ITEM_HASH_CACHE_TTL_MS)]

\* the state of POST when the query has answered (lines 780-782)
LoopStart ==
    /\ req = LoopRequest
    /\ matchingEnv = "1"
    /\ now = 2 * ITEM_HASH_CACHE_TTL_MS
    /\ pc = "hashing"
    /\ boxes = <<CropBox(0, 0, 0, 0)>>
    /\ slots = LoopSlots
    /\ groups = buildGroups(LoopSlots)
    /\ response = NoResponse
    /\ queryError = "null"
    /\ requestTimedOut = FALSE

\* the cache empty, or holding the first URL fresh
LoopCacheInits ==
    {c \in CacheInits :
        \A u \in DOMAIN c : c[u].expiresAt > 2 * ITEM_HASH_CACHE_TTL_MS}

\* the loop before its first batch, on a catalog of up to MaxLoopCatalog rows
InitLoopShort ==
    /\ \E n \in 0..MaxLoopCatalog : catalog = CatalogRows(n)
    /\ itemHashCache \in LoopCacheInits
    /\ itemHashes = << >>
    /\ batchStart = 0
    /\ hashCalls = NoCalls
    /\ fetchStarts = << >>

\* the loop after MAX_HASHED / HASH_CONCURRENCY batches of which f rows failed;
\* an earlier request left all but MaxCapFetches rows of the next batch cached
InitLoopAtCap ==
    \E f \in 0..MaxEarlierFailures :
        /\ catalog = CapCatalog
        /\ hashCalls = CapCalls(f)
        /\ itemHashes = [j \in 1..(MAX_HASHED - f) |-> CapCalls(f)[j + f].r]
        /\ batchStart = MAX_HASHED
        /\ fetchStarts = [i \in 1..MAX_HASHED |-> Url(i)]
        /\ itemHashCache =
              [u \in {Url(i) : i \in (f + 1)..(MAX_HASHED + HASH_CONCURRENCY - MaxCapFetches)} |->
                  IF u \in {Url(i) : i \in (f + 1)..MAX_HASHED}
                  THEN CachedHash(FingerprintOfK[0], 3 * ITEM_HASH_CACHE_TTL_MS)
                  ELSE CachedHash(FingerprintOfK[0], 2 * ITEM_HASH_CACHE_TTL_MS + 1)]

InitLoop ==
    /\ call = << >>
    /\ ret = << >>
    /\ LoopStart
    /\ InitLoopShort \/ InitLoopAtCap

NextLoop ==
    \/ StartBatch
    \/ FetchSettles
    \/ FinishBatch
    \/ RequestTimesOut

SpecLoop == InitLoop /\ [][NextLoop]_vars

\* every step of the loop is taken in the end: each await settles, a fetch at
\* the latest when its own timer aborts it after FETCH_TIMEOUT_MS (lines 522-536)
SpecLoopFair == SpecLoop /\ WF_vars(NextLoop)

\* the hashing loop is left, whatever its fetches do
LoopEnds == <>(pc = "hashing" /\ ~MoreToHash)

\* C16: once the request's deadline has passed, no further catalog fetch is
\* started: the fetches outstanding are given up and the request goes on to
\* matching with the entries hashed so far.
C16_NoFetchAfterRequestTimeout ==
    [][requestTimedOut => fetchStarts' = fetchStarts]_vars

\* the figures of a group as its candidate list cands gives them
FiguresOf(cands) ==
    LET n == Len(cands)
        margin == IF n = 0 THEN 0
                  ELSE IF n = 1 THEN cands[1].score
                  ELSE cands[1].score - cands[2].score
    IN  [bestScore |-> IF n >= 1 THEN cands[1].score ELSE UNDEFINED,
         secondScore |-> IF n >= 2 THEN cands[2].score ELSE UNDEFINED,
         bestMargin |-> margin,
         ambiguous |-> n = 0 \/ (n >= 2 /\ margin < MIN_AUTODETECT_MARGIN),
         autoDetected |-> /\ n >= 1
                          /\ cands[1].score >= MIN_SCORE_AUTODETECT
                          /\ n < 2 \/ margin >= MIN_AUTODETECT_MARGIN]

\* C20: in the response of a matched request every group's bestScore,
\* secondScore, bestMargin, ambiguous and autoDetected are the values its
\* final candidate list gives, also for a group that lost its best to the
\* dominance step.
C20_FiguresFollowFinalCandidates ==
    (Answered /\ QuerySucceeded) =>
        \A j \in 1..Len(response.body.groups) :
            LET g == response.body.groups[j]
                f == FiguresOf(g.candidates)
            IN  /\ g.bestScore = f.bestScore
                /\ g.secondScore = f.secondScore
                /\ g.bestMargin = f.bestMargin
                /\ g.ambiguous = f.ambiguous
                /\ g.autoDetected = f.autoDetected

\* two entries hashed; a returned group lost the first, which led its list
\* with no margin, and is auto-detected on the second
C20_Witness ==
    /\ Answered
    /\ QuerySucceeded
    /\ Len(itemHashes) = 2
    /\ \E j \in 1..Len(response.body.groups) :
          LET g == response.body.groups[j]
          IN  /\ Len(g.candidates) = 1
              /\ g.candidates[1].itemId = 2
              /\ g.bestScore = SCORE_MAX
              /\ g.autoDetected
              /\ scoreTripleHash(g.aHash64, g.dHash64, g.pHash64,
                                 itemHashes[1].aHash64, itemHashes[1].dHash64,
                                 itemHashes[1].pHash64) = SCORE_MAX

\* C14: at most HASH_CONCURRENCY fetch-and-hash operations are in flight, all
\* of them rows of the batch the loop is at, so that no operation of a batch
\* starts before every operation of the batch before it has settled.
C14_BatchesOfAtMostSix ==
    /\ Cardinality(InFlight) <= HASH_CONCURRENCY
    /\ DOMAIN hashCalls \subseteq 1..(batchStart + HASH_CONCURRENCY)
    /\ \A i \in InFlight : batchStart < i /\ i <= batchStart + HASH_CONCURRENCY
    /\ InFlight # {} => pc = "awaiting"

\* the second batch is in flight, the six calls of the first have settled
C14_Witness ==
    /\ batchStart = HASH_CONCURRENCY
    /\ HASH_CONCURRENCY + 1 \in InFlight
    /\ \A i \in 1..HASH_CONCURRENCY : i \in DOMAIN hashCalls /\ hashCalls[i] # Pending
    /\ Len(fetchStarts) > HASH_CONCURRENCY

\* C15: the list of hashed entries never holds more than MAX_HASHED entries,
\* and no batch is in progress while the list is at the limit.
C15_AtMostMaxHashed ==
    /\ Len(itemHashes) <= MAX_HASHED
    /\ (pc = "awaiting" \/ InFlight # {}) => Len(itemHashes) < MAX_HASHED

\* the batch that crossed the limit had six successes for two free places, and
\* rows are left in the catalog
C15_Witness ==
    /\ pc = "hashing"
    /\ batchStart = MAX_HASHED + HASH_CONCURRENCY
    /\ batchStart < Len(catalog)
    /\ Len(itemHashes) = MAX_HASHED
    /\ hashCalls[2].r = Null
    /\ \A i \in (MAX_HASHED + 1)..(MAX_HASHED + HASH_CONCURRENCY) :
          hashCalls[i].r # Null

(***************************************************************************)
(* Inputs of the pure-function specifications                              *)
(***************************************************************************)
\* the bit patterns hammingDistanceHex64 is run on: every nibble value against
\* every other, over runs of every length
HammingPatterns == {NibbleRun(n, k) : n \in 0..15, k \in 0..16}

\* the prefix lengths of the bit patterns scoreTripleHash is run on: distances
\* 0, 1, 2, 3 and 61..64, so that every remainder of the weighted sum occurs
ScorePrefixes == {0, 1, 3, 64}

ScoreFingerprints ==
    {[bits |-> <<Ones(a), Ones(d), Ones(p)>>, fp |-> Fingerprint(Ones(a), Ones(d), Ones(p))] :
        a \in ScorePrefixes, d \in ScorePrefixes, p \in ScorePrefixes}

(***************************************************************************)
(* SpecHash: hammingDistanceHex64 and scoreTripleHash on drawn inputs       *)
(***************************************************************************)
InitHash ==
    /\ call \in
         {<<[fn |-> "hammingDistanceHex64", bitsA |-> p, bitsB |-> q,
             a16 |-> bitsToHex(p), b16 |-> bitsToHex(q)]>> :
                p \in HammingPatterns, q \in HammingPatterns}
         \cup
         {<<[fn |-> "scoreTripleHash", bitsA |-> A.bits, bitsB |-> B.bits,
             A |-> A.fp, B |-> B.fp]>> :
                A \in ScoreFingerprints, B \in ScoreFingerprints}
    /\ ret = << >>
    /\ IdleRequest

CallHamming ==
    /\ Len(ret) < Len(call)
    /\ LET c == call[Len(ret) + 1]
       IN  /\ c.fn = "hammingDistanceHex64"
           /\ ret' = Append(ret, hammingDistanceHex64(c.a16, c.b16))
    /\ UNCHANGED <<call, requestVars>>

CallScore ==
    /\ Len(ret) < Len(call)
    /\ LET c == call[Len(ret) + 1]
       IN  /\ c.fn = "scoreTripleHash"
           /\ ret' = Append(ret, scoreTripleHash(c.A.aHash64, c.A.dHash64, c.A.pHash64,
                                                 c.B.aHash64, c.B.dHash64, c.B.pHash64))
    /\ UNCHANGED <<call, requestVars>>

NextHash == CallHamming \/ CallScore

SpecHash == InitHash /\ [][NextHash]_vars

\* the number of positions at which two bit strings differ
DifferingBits(p, q) == Cardinality({i \in 1..64 : p[i] # q[i]})

HammingDone ==
    /\ Len(ret) = 1
    /\ call[1].fn = "hammingDistanceHex64"

ScoreDone ==
    /\ Len(ret) = 1
    /\ call[1].fn = "scoreTripleHash"

\* the weighted sum of the three bit distances of a scoreTripleHash call
WeightedBits(c) ==
    DifferingBits(c.bitsA[1], c.bitsB[1]) + DifferingBits(c.bitsA[2], c.bitsB[2])
    + 2 * DifferingBits(c.bitsA[3], c.bitsB[3])

\* C8: hammingDistanceHex64 is symmetric, is 0 on equal arguments, lies in
\* 0..64, and on two 16-digit strings is the number of differing bits of the
\* two 64-bit patterns.
C8_HammingIsBitDistance ==
    HammingDone =>
        LET c == call[1]
            d == ret[1]
        IN  /\ d \in 0..64
            /\ d = hammingDistanceHex64(c.b16, c.a16)
            /\ (c.a16 = c.b16 => d = 0)
            /\ Len(c.a16) = 16 /\ Len(c.b16) = 16
            /\ d = DifferingBits(c.bitsA, c.bitsB)

\* two different nibble values met over a whole string: 16 * 2 bits differ
C8_Witness ==
    /\ HammingDone
    /\ call[1].a16 # call[1].b16
    /\ ret[1] = 32

\* C9: scoreTripleHash is 64 - round((distA + distD + 2*distP) / 4), halves
\* rounded up; it lies in 0..64 and is 64 for identical fingerprints.
C9_ScoreFormula ==
    ScoreDone =>
        LET c == call[1]
            w == WeightedBits(c)
            r == 64 - ret[1]
        IN  /\ 4 * r - 2 <= w /\ w < 4 * r + 2
            /\ ret[1] \in 0..64
            /\ (c.A = c.B => ret[1] = 64)

\* a half: weighted sum 2, quotient 0.5, rounded up to 1
C9_Witness ==
    /\ ScoreDone
    /\ WeightedBits(call[1]) = 2
    /\ ret[1] = 63

(***************************************************************************)
(* SpecStatus: deriveStatusFromCandidates on drawn candidate lists          *)
(***************************************************************************)
\* the longest candidate list of a single run, and of each run of a pair
MaxItems == 3
MaxPairItems == 2

\* the detection units the drawn candidates sit on
StatusSlots == {0, 1, 4}

SeqsUpTo(S, n) == UNION {[1..m -> S] : m \in 0..n}

\* candidates as candidatesFromGroups writes them
HashMatchCandidates(ids, scores) ==
    {ItemCandidate(String(id), ItemNames[id], 0, "hash_match", slot,
                   [score |-> score, group_span |-> 1]) :
        id \in ids, score \in scores, slot \in StatusSlots}

StatusCall(items, isDisabled) ==
    [fn |-> "deriveStatusFromCandidates", items |-> items, isDisabled |-> isDisabled]

\* one run on any list, or two runs whose candidates share no score, id or label
InitStatus ==
    /\ call \in
         {<<StatusCall(items, d)>> :
             items \in SeqsUpTo(HashMatchCandidates({1, 2}, {38, 64}), MaxItems),
             d \in BOOLEAN}
         \cup
         {<<StatusCall(items1, FALSE), StatusCall(items2, FALSE)>> :
             items1 \in SeqsUpTo(HashMatchCandidates({3}, {40, 60}), MaxPairItems),
             items2 \in SeqsUpTo(HashMatchCandidates({4}, {41, 44}), MaxPairItems)}
    /\ ret = << >>
    /\ IdleRequest

CallDeriveStatus ==
    /\ Len(ret) < Len(call)
    /\ LET c == call[Len(ret) + 1]
       IN  /\ c.fn = "deriveStatusFromCandidates"
           /\ ret' = Append(ret, deriveStatusFromCandidates(c.items, c.isDisabled))
    /\ UNCHANGED <<call, requestVars>>

NextStatus == CallDeriveStatus

SpecStatus == InitStatus /\ [][NextStatus]_vars

\* a single run of deriveStatusFromCandidates has returned
StatusDone ==
    /\ Len(call) = 1
    /\ Len(ret) = 1
    /\ call[1].fn = "deriveStatusFromCandidates"

\* both runs of a pair have returned
StatusPairDone ==
    /\ Len(call) = 2
    /\ Len(ret) = 2
    /\ call[1].fn = "deriveStatusFromCandidates"

\* the number of candidates of a list on unit s
OnUnit(items, s) == Cardinality({i \in 1..Len(items) : items[i].slot_index = s})

\* C1: when classification is not disabled, the status is 'ambiguous' if and
\* only if some detection unit carries more than one candidate.
C1_AmbiguousIffCrowdedUnit ==
    (StatusDone /\ ~call[1].isDisabled) =>
        (ret[1] = "ambiguous" <=> \E s \in StatusSlots : OnUnit(call[1].items, s) > 1)

\* the crowded unit is not the first candidate's, and another unit holds one
C1_Witness ==
    /\ StatusDone
    /\ ~call[1].isDisabled
    /\ ret[1] = "ambiguous"
    /\ OnUnit(call[1].items, call[1].items[1].slot_index) = 1
    /\ \E s \in StatusSlots : OnUnit(call[1].items, s) = 2

\* C2: when classification is not disabled, the status is 'no_matches' iff the
\* list is empty and 'matches' iff it is non-empty with exactly one candidate
\* on every unit it touches; the status is one of the four contract values.
C2_NoMatchesAndMatches ==
    StatusDone =>
        /\ ret[1] \in Statuses
        /\ ~call[1].isDisabled =>
              /\ ret[1] = "no_matches" <=> Len(call[1].items) = 0
              /\ ret[1] = "matches" <=>
                    /\ Len(call[1].items) > 0
                    /\ \A i \in 1..Len(call[1].items) :
                          OnUnit(call[1].items, call[1].items[i].slot_index) = 1

\* three units, one candidate each
C2_Witness ==
    /\ StatusDone
    /\ ~call[1].isDisabled
    /\ ret[1] = "matches"
    /\ Len(call[1].items) = 3

\* the two lists of a pair have the same number of candidates on every unit
SameShape ==
    \A s \in StatusSlots : OnUnit(call[1].items, s) = OnUnit(call[2].items, s)

\* C3: two runs whose candidate lists have the same number of candidates on
\* each unit return the same status, whatever the scores, ids and labels.
C3_StatusDependsOnShapeOnly ==
    (StatusPairDone /\ SameShape) => ret[1] = ret[2]

\* two candidates on one unit in both runs: far apart in score in the first
\* run, close in the second, and no score, id or label in common
C3_Witness ==
    /\ StatusPairDone
    /\ SameShape
    /\ Len(call[1].items) = 2
    /\ call[1].items[1].slot_index = call[1].items[2].slot_index
    /\ call[1].items[1].meta.score = 60 /\ call[1].items[2].meta.score = 40
    /\ call[2].items[1].meta.score = 41 /\ call[2].items[2].meta.score = 41
    /\ ret[1] = "ambiguous"

(***************************************************************************)
(* SpecGroups: buildGroups on drawn slot lists                              *)
(***************************************************************************)
\* the most crops a supplied list holds (an image always gives NUM_SLOTS)
MaxCrops == 7

\* the aHash prefix lengths of the drawn slots: neighbours are 0, 20 (merged),
\* 21 or 41 bits apart
GroupPoolK == {0, 20, 41}

\* the aHash bits of a drawn slot, and its three hashes
GroupBits == [k \in GroupPoolK |-> Ones(k)]
GroupFingerprints == [k \in GroupPoolK |-> Fingerprint(GroupBits[k], Ones(0), Ones(0))]

GroupsCall(ks) ==
    [fn |-> "buildGroups",
     bits |-> [i \in 1..Len(ks) |-> GroupBits[ks[i]]],
     slots |-> [i \in 1..Len(ks) |->
                   SlotFeature(i - 1, CropBox(i - 1, 0, 1, 1), GroupFingerprints[ks[i]])]]

InitGroups ==
    /\ call \in {<<GroupsCall(ks)>> :
                    ks \in SeqsUpTo(GroupPoolK, MaxCrops) \cup [1..NUM_SLOTS -> GroupPoolK]}
    /\ ret = << >>
    /\ IdleRequest

CallBuildGroups ==
    /\ Len(ret) < Len(call)
    /\ LET c == call[Len(ret) + 1]
       IN  /\ c.fn = "buildGroups"
           /\ ret' = Append(ret, buildGroups(c.slots))
    /\ UNCHANGED <<call, requestVars>>

NextGroups == CallBuildGroups

SpecGroups == InitGroups /\ [][NextGroups]_vars

GroupsDone ==
    /\ Len(ret) = 1
    /\ call[1].fn = "buildGroups"

\* the slots a group covers
Covered(g) == g.startSlot .. (g.startSlot + g.span - 1)

\* C5: the groups buildGroups returns partition the slot indices: the first
\* starts at 0, each next one starts where the previous one ends, the spans
\* are in 1..4 and sum to the number of slots, and every index is covered by
\* exactly one group.
C5_GroupsPartitionSlots ==
    GroupsDone =>
        LET n == Len(call[1].slots)
            gs == ret[1]
        IN  /\ (n = 0) <=> (Len(gs) = 0)
            /\ Len(gs) > 0 =>
                  /\ gs[1].startSlot = 0
                  /\ gs[Len(gs)].startSlot + gs[Len(gs)].span = n
            /\ \A j \in 1..Len(gs) :
                  /\ gs[j].span \in 1..4
                  /\ j < Len(gs) => gs[j + 1].startSlot = gs[j].startSlot + gs[j].span
            /\ \A i \in 0..(n - 1) :
                  Cardinality({j \in 1..Len(gs) : i \in Covered(gs[j])}) = 1

\* ten slots in groups of every span
C5_Witness ==
    /\ GroupsDone
    /\ Len(call[1].slots) = NUM_SLOTS
    /\ {ret[1][j].span : j \in 1..Len(ret[1])} = 1..4

\* the aHash distance of slots i and i + 1 (0-based), counted on the drawn bits
PairDistance(i) == DifferingBits(call[1].bits[i + 1], call[1].bits[i + 2])

\* the slots i .. i+k-1 exist and every neighbouring pair of them is close
Fits(i, k) ==
    /\ i + k <= Len(call[1].slots)
    /\ \A m \in 0..(k - 2) : PairDistance(i + m) <= GROUP_MERGE_MAX_ADJ_DIST

\* C6: the span of a group that starts at slot i is the largest k in 1..4 for
\* which the slots i .. i+k-1 exist and every neighbouring pair of them has an
\* aHash distance of at most 20.
C6_SpanIsLongestCloseRun ==
    GroupsDone =>
        \A j \in 1..Len(ret[1]) :
            LET g == ret[1][j]
            IN  /\ g.span \in 1..4
                /\ Fits(g.startSlot, g.span)
                /\ \A k \in (g.span + 1)..4 : ~Fits(g.startSlot, k)

\* a group that was extended over a pair exactly 20 apart and stopped at a
\* pair 21 apart
C6_Witness ==
    /\ GroupsDone
    /\ \E j \in 1..Len(ret[1]) :
          LET g == ret[1][j]
          IN  /\ g.span = 2
              /\ PairDistance(g.startSlot) = GROUP_MERGE_MAX_ADJ_DIST
              /\ g.startSlot + 2 < Len(call[1].slots)
              /\ PairDistance(g.startSlot + 1) = GROUP_MERGE_MAX_ADJ_DIST + 1

(***************************************************************************)
(* SpecMatch: the matching loop's body on drawn catalog lists               *)
(***************************************************************************)
\* the most hashed catalog entries of a drawn list
MaxHashes == 6

\* the prefix lengths of the drawn entries: against a group of prefix length 0
\* they score 64, 38 and 37
MatchPoolK == {0, 26, 27}

MatchFingerprints == [k \in MatchPoolK |-> Fingerprint(Ones(k), Ones(k), Ones(k))]

HashedItem(id, k) ==
    LET fp == MatchFingerprints[k]
    IN  [id |-> id, name |-> ItemNames[id], aHash64 |-> fp.aHash64,
         dHash64 |-> fp.dHash64, pHash64 |-> fp.pHash64]

MatchCall(ks) ==
    [fn |-> "matchGroup",
     g |-> NewGroup(<<SlotFeature(0, CropBox(0, 0, 1, 1), MatchFingerprints[0])>>, 1, 1),
     itemHashes |-> [j \in 1..Len(ks) |-> HashedItem(j, ks[j])]]

\* the most entries of a list drawn against a group of another prefix length
MaxShortHashes == 3

\* the prefix lengths of those groups: the entries of MatchPoolK score 52, 50
\* and 49 against 12, 46, 56 and 55 against 18, and 45, 57 and 56 against 19
MatchGroupK == {12, 18, 19}

MatchGroupFingerprints ==
    [k \in MatchGroupK |-> Fingerprint(Ones(k), Ones(k), Ones(k))]

ConfidenceCall(gk, ks) ==
    [fn |-> "matchGroup",
     g |-> NewGroup(<<SlotFeature(0, CropBox(0, 0, 1, 1), MatchGroupFingerprints[gk])>>,
                    1, 1),
     itemHashes |-> [j \in 1..Len(ks) |-> HashedItem(j, ks[j])]]

InitMatch ==
    /\ call \in {<<MatchCall(ks)>> : ks \in SeqsUpTo(MatchPoolK, MaxHashes)}
               \cup {<<ConfidenceCall(gk, ks)>> :
                        gk \in MatchGroupK, ks \in SeqsUpTo(MatchPoolK, MaxShortHashes)}
    /\ ret = << >>
    /\ IdleRequest

CallMatchGroup ==
    /\ Len(ret) < Len(call)
    /\ LET c == call[Len(ret) + 1]
       IN  /\ c.fn = "matchGroup"
           /\ ret' = Append(ret, MatchGroup(c.g, c.itemHashes))
    /\ UNCHANGED <<call, requestVars>>

NextMatch == CallMatchGroup

SpecMatch == InitMatch /\ [][NextMatch]_vars

MatchDone ==
    /\ Len(ret) = 1
    /\ call[1].fn = "matchGroup"

\* the score of the group against the j-th hashed entry
EntryScore(j) ==
    LET g == call[1].g
        it == call[1].itemHashes[j]
    IN  scoreTripleHash(g.aHash64, g.dHash64, g.pHash64,
                        it.aHash64, it.dHash64, it.pHash64)

\* the hashed entries that are in the candidate list
Retained == {j \in 1..Len(call[1].itemHashes) :
                \E c \in 1..Len(ret[1].candidates) :
                    ret[1].candidates[c].itemId = call[1].itemHashes[j].id}

\* the scores of the group against the hashed entries, in list order
EntryScores == [j \in 1..Len(call[1].itemHashes) |-> EntryScore(j)]

\* what the list of scores sc says of a group: whether an entry reaches
\* MIN_SCORE_CANDIDATE, whether two do, the highest such score and the
\* highest among the others
Standing(sc) ==
    LET eligible == {j \in DOMAIN sc : sc[j] >= MIN_SCORE_CANDIDATE}
        values == {sc[j] : j \in eligible}
        top == CHOOSE v \in values : \A w \in values : w <= v
        tied == Cardinality({j \in eligible : sc[j] = top}) >= 2
        lower == values \ {top}
    IN  [hasBest |-> eligible # {},
         hasSecond |-> Cardinality(eligible) >= 2,
         best |-> IF eligible = {} THEN UNDEFINED ELSE top,
         second |-> IF Cardinality(eligible) < 2 THEN UNDEFINED
                    ELSE IF tied THEN top
                    ELSE CHOOSE v \in lower : \A w \in lower : w <= v]

\* C17: a group is auto-detected exactly when it has a best candidate whose
\* score is at least MIN_SCORE_AUTODETECT and either no second candidate or a
\* lead of at least MIN_AUTODETECT_MARGIN over it.
C17_AutoDetectedIffStrongAndClear ==
    MatchDone =>
        LET s == Standing(EntryScores)
        IN  ret[1].autoDetected <=>
                /\ s.hasBest
                /\ s.best >= MIN_SCORE_AUTODETECT
                /\ ~s.hasSecond \/ s.best - s.second >= MIN_AUTODETECT_MARGIN

\* a best of 52 that leads the second by exactly 3
C17_Witness ==
    /\ MatchDone
    /\ ret[1].autoDetected
    /\ Len(ret[1].candidates) = 2
    /\ ret[1].bestScore = 52
    /\ ret[1].bestMargin = MIN_AUTODETECT_MARGIN

\* C18: a group is ambiguous exactly when it has no candidate, or has a second
\* candidate less than MIN_AUTODETECT_MARGIN behind the best; its margin is
\* best minus second, the best score when there is no second, 0 when there is
\* no best.
C18_AmbiguousIffNoneOrClose ==
    MatchDone =>
        LET s == Standing(EntryScores)
        IN  /\ ret[1].ambiguous <=>
                  \/ ~s.hasBest
                  \/ s.hasSecond /\ s.best - s.second < MIN_AUTODETECT_MARGIN
            /\ ret[1].bestMargin =
                  IF ~s.hasBest THEN 0
                  ELSE IF ~s.hasSecond THEN s.best
                  ELSE s.best - s.second

\* a best of 52 that leads the second by 2
C18_Witness ==
    /\ MatchDone
    /\ ret[1].ambiguous
    /\ Len(ret[1].candidates) >= 2
    /\ ret[1].bestScore = 52
    /\ ret[1].bestMargin = 2

\* C10: after matching a group's candidate list is sorted by non-increasing
\* score, holds only hashed entries that score at least 38, holds at most 5,
\* and is the highest-scoring prefix of the eligible entries.
C10_CandidatesAreTopEligible ==
    MatchDone =>
        LET cands == ret[1].candidates
            all == 1..Len(call[1].itemHashes)
        IN  /\ \A c \in 1..(Len(cands) - 1) : cands[c].score >= cands[c + 1].score
            /\ Len(cands) <= 5
            /\ \A c \in 1..Len(cands) :
                  /\ cands[c].score >= 38
                  /\ \E j \in all :
                        /\ cands[c].itemId = call[1].itemHashes[j].id
                        /\ cands[c].name = call[1].itemHashes[j].name
                        /\ cands[c].score = EntryScore(j)
            /\ Cardinality(Retained) = Len(cands)
            /\ \A j \in all \ Retained :
                  /\ \A r \in Retained : EntryScore(j) <= EntryScore(r)
                  /\ EntryScore(j) >= 38 => Len(cands) = 5

\* six entries: one below 38, and five eligible that come out of order
C10_Witness ==
    /\ MatchDone
    /\ Len(call[1].itemHashes) = 6
    /\ Len(ret[1].candidates) = 5
    /\ EntryScore(1) = 37
    /\ EntryScore(2) = 38
    /\ EntryScore(6) = 64
    /\ ret[1].candidates[1].itemId = 6


(***************************************************************************)
(* SpecDominance: the suppression loop on matched groups                   *)
(***************************************************************************)
MaxDomGroups == 3
MaxDomHashes == 3

\* the prefix lengths of the groups: the entries of MatchPoolK score 53, 49
\* and 48 against 11, 52, 50 and 49 against 12, and 37, 63 and 64 against 27
DomGroupK == {11, 12, 27}

DomGroupFingerprints ==
    [k \in DomGroupK |-> Fingerprint(Ones(k), Ones(k), Ones(k))]

\* the j-th group of a request, as buildGroups makes it
DomGroup(j, gk) ==
    NewGroup([i \in 1..j |-> SlotFeature(i - 1, CropBox(0, 0, 1, 1),
                                         DomGroupFingerprints[gk])], j, 1)

\* the groups of a request after the matching loop
DominanceCall(gks, ks) ==
    LET hashes == [j \in 1..Len(ks) |-> HashedItem(j, ks[j])]
    IN  [fn |-> "suppressDominant", itemHashes |-> hashes,
         groups |-> [j \in 1..Len(gks) |-> MatchGroup(DomGroup(j, gks[j]), hashes)]]

InitDominance ==
    /\ call \in {<<DominanceCall(gks, ks)>> :
                    gks \in SeqsUpTo(DomGroupK, MaxDomGroups),
                    ks \in SeqsUpTo(MatchPoolK, MaxDomHashes)}
    /\ ret = << >>
    /\ IdleRequest

CallSuppressDominant ==
    /\ Len(ret) < Len(call)
    /\ LET c == call[Len(ret) + 1]
       IN  /\ c.fn = "suppressDominant"
           /\ ret' = Append(ret, SuppressDominant(c.groups))
    /\ UNCHANGED <<call, requestVars>>

\* the same pass with the groups visited in another order
CallSuppressInOrder ==
    /\ Len(ret) = 1
    /\ call[1].fn = "suppressDominant"
    /\ \E order \in Reorderings(Len(call[1].groups)) :
          ret' = Append(ret,
                     [order |-> order,
                      groups |-> SuppressLoop(call[1].groups,
                                              BestCountByItemId(call[1].groups), order, 1)])
    /\ UNCHANGED <<call, requestVars>>

NextDominance == CallSuppressDominant \/ CallSuppressInOrder

SpecDominance == InitDominance /\ [][NextDominance]_vars

DominanceDone ==
    /\ Len(ret) = 1
    /\ call[1].fn = "suppressDominant"

\* the id at the head of the j-th group's list before the suppression
BestIdBefore(j) == call[1].groups[j].candidates[1].itemId

\* the j-th group has a best that is the best of DOMINANT_BEST_COUNT groups
DominatedBefore(j) ==
    /\ call[1].groups[j].candidates # << >>
    /\ Cardinality({i \in 1..Len(call[1].groups) :
                       /\ call[1].groups[i].candidates # << >>
                       /\ BestIdBefore(i) = BestIdBefore(j)}) >= DOMINANT_BEST_COUNT

\* the j-th group's list before the suppression, without its best id
WithoutBest(j) ==
    LET before == call[1].groups[j].candidates
        Kept(c) == c.itemId # BestIdBefore(j)
    IN  SelectSeq(before, Kept)

\* C19 as stated: an id that is the best of DOMINANT_BEST_COUNT or more groups
\* is removed from the list of every such group unless the group's margin
\* exceeds MIN_AUTODETECT_MARGIN + DOMINANT_MARGIN_BONUS; every other group is
\* left as it was.
C19_DominantRemovedUnlessMarginAbove ==
    DominanceDone =>
        \A j \in 1..Len(call[1].groups) :
            IF /\ DominatedBefore(j)
               /\ ~(call[1].groups[j].bestMargin >
                       MIN_AUTODETECT_MARGIN + DOMINANT_MARGIN_BONUS)
            THEN ret[1][j].candidates = WithoutBest(j)
            ELSE ret[1][j] = call[1].groups[j]

\* C19: an id that is the best of DOMINANT_BEST_COUNT or more groups is
\* removed from the list of every such group unless the group's margin is at
\* least MIN_AUTODETECT_MARGIN + DOMINANT_MARGIN_BONUS; every other group is
\* left as it was.
C19_DominantRemovedUnlessMarginAtLeast ==
    DominanceDone =>
        \A j \in 1..Len(call[1].groups) :
            IF /\ DominatedBefore(j)
               /\ ~(call[1].groups[j].bestMargin >=
                       MIN_AUTODETECT_MARGIN + DOMINANT_MARGIN_BONUS)
            THEN /\ ret[1][j].candidates = WithoutBest(j)
                 /\ \A c \in 1..Len(ret[1][j].candidates) :
                       ret[1][j].candidates[c].itemId # BestIdBefore(j)
            ELSE ret[1][j] = call[1].groups[j]

\* one id is the best of three groups at margin 2 and is in none of their
\* lists afterwards
C19_Witness ==
    /\ DominanceDone
    /\ Len(call[1].groups) = 3
    /\ \A j \in 1..3 :
          /\ Len(call[1].groups[j].candidates) = 2
          /\ BestIdBefore(j) = 1
          /\ call[1].groups[j].bestMargin = 2
          /\ Len(ret[1][j].candidates) = 1
          /\ ret[1][j].candidates[1].itemId = 2


\* the scores of the j-th group against the hashed entries, in list order
DomScores(j) ==
    LET g == call[1].groups[j]
    IN  [k \in 1..Len(call[1].itemHashes) |->
            scoreTripleHash(g.aHash64, g.dHash64, g.pHash64,
                            call[1].itemHashes[k].aHash64, call[1].itemHashes[k].dHash64,
                            call[1].itemHashes[k].pHash64)]

\* one entry reaches MIN_SCORE_AUTODETECT against the j-th group and every
\* other entry is below MIN_SCORE_CANDIDATE
OneTrueMatch(j) ==
    LET sc == DomScores(j)
    IN  \E k \in DOMAIN sc :
            /\ sc[k] >= MIN_SCORE_AUTODETECT
            /\ \A i \in DOMAIN sc \ {k} : sc[i] < MIN_SCORE_CANDIDATE

\* C21: a group against which exactly one entry scores at least
\* MIN_SCORE_AUTODETECT, every other entry scoring below MIN_SCORE_CANDIDATE,
\* has exactly one candidate, is auto-detected and is not ambiguous, after
\* matching and after the dominance pass, whatever the other groups are.
C21_OneTrueMatchIsAutoDetected ==
    DominanceDone =>
        \A j \in 1..Len(call[1].groups) :
            OneTrueMatch(j) =>
                /\ Len(call[1].groups[j].candidates) = 1
                /\ call[1].groups[j].autoDetected
                /\ ~call[1].groups[j].ambiguous
                /\ Len(ret[1][j].candidates) = 1
                /\ ret[1][j].candidates[1].score >= MIN_SCORE_AUTODETECT
                /\ ret[1][j].autoDetected
                /\ ~ret[1][j].ambiguous

\* two groups have the same single true match (64 against 37), which is then
\* the best of both, and both keep it
C21_Witness ==
    /\ DominanceDone
    /\ Len(call[1].groups) >= 2
    /\ Len(call[1].itemHashes) = 2
    /\ OneTrueMatch(1)
    /\ OneTrueMatch(2)
    /\ DomScores(1) = <<37, 64>>
    /\ call[1].groups[1].candidates[1].itemId = call[1].groups[2].candidates[1].itemId
    /\ Len(ret[1][1].candidates) = 1
    /\ ret[1][1].autoDetected


\* the two flags of a group exclude each other, and a group without
\* candidates is ambiguous and not auto-detected
FlagsConsistent(g) ==
    /\ ~(g.autoDetected /\ g.ambiguous)
    /\ g.candidates = << >> => (g.ambiguous /\ ~g.autoDetected)

\* C28: for every group, after matching and after the dominance pass,
\* autoDetected and ambiguous are never both true, and a group with no
\* candidates has ambiguous = true and autoDetected = false.
C28_FlagsExcludeEachOther ==
    /\ \A j \in 1..Len(call[1].groups) : FlagsConsistent(call[1].groups[j])
    /\ DominanceDone => \A j \in 1..Len(ret[1]) : FlagsConsistent(ret[1][j])

\* one group has no candidates and is ambiguous; another was ambiguous on two
\* candidates after matching and is auto-detected on the one the dominance
\* pass left it
C28_Witness ==
    /\ DominanceDone
    /\ Len(ret[1]) = 3
    /\ \E j \in 1..3 :
          /\ ret[1][j].candidates = << >>
          /\ ret[1][j].ambiguous
          /\ ~ret[1][j].autoDetected
    /\ \E j \in 1..3 :
          /\ Len(call[1].groups[j].candidates) = 2
          /\ call[1].groups[j].ambiguous
          /\ ~call[1].groups[j].autoDetected
          /\ Len(ret[1][j].candidates) = 1
          /\ ret[1][j].autoDetected
          /\ ~ret[1][j].ambiguous

\* the pass was also made in some visiting order
ReorderedDone ==
    /\ Len(ret) = 2
    /\ call[1].fn = "suppressDominant"

\* the id promoted to the head of the j-th group's list by the removal
PromotedId(j) == WithoutBest(j)[1].itemId

\* after the pass, the id is the best of DOMINANT_BEST_COUNT groups
DominantAfter(gs, id) ==
    Cardinality({i \in 1..Len(gs) :
                    gs[i].candidates # << >> /\ gs[i].candidates[1].itemId = id})
        >= DOMINANT_BEST_COUNT

\* C30: the dominance pass decides every group from the state before any
\* removal: the result is the same in every visiting order and is, group by
\* group, what the tally and the group's own best and margin before the pass
\* give; a candidate that a removal makes the best is not removed in the same
\* pass, even when it is then the best of DOMINANT_BEST_COUNT groups.
C30_DominanceDecidedBeforeRemoval ==
    ReorderedDone =>
        /\ ret[2].groups = ret[1]
        /\ \A j \in 1..Len(call[1].groups) :
              LET before == call[1].groups[j].candidates
                  after == ret[2].groups[j].candidates
              IN  /\ after \in {before, WithoutBest(j)}
                  /\ (after # before /\ after # << >>) =>
                        /\ after[1].itemId = PromotedId(j)
                        /\ after[1].itemId # BestIdBefore(j)

\* visited last to first, two groups lose the best they shared; the id
\* promoted in both is then the best of DOMINANT_BEST_COUNT groups at a margin
\* below the elevated bound, and stays
C30_Witness ==
    /\ ReorderedDone
    /\ Len(call[1].groups) >= 2
    /\ ret[2].order[1] = Len(call[1].groups)
    /\ \E j \in 1..Len(call[1].groups) :
          /\ DominatedBefore(j)
          /\ ret[2].groups[j].candidates # call[1].groups[j].candidates
          /\ ret[2].groups[j].candidates # << >>
          /\ DominantAfter(ret[2].groups, PromotedId(j))
          /\ ret[2].groups[j].bestMargin < MIN_AUTODETECT_MARGIN + DOMINANT_MARGIN_BONUS
          /\ ret[2].groups[j].candidates[1].itemId = PromotedId(j)

(***************************************************************************)
(* SpecContract: candidatesFromGroups and buildContract on drawn inputs     *)
(***************************************************************************)
MaxFlatGroups == 3

\* a candidate of a group: a catalog entry and its score
FlatCandidate(id, score) == [itemId |-> id, name |-> ItemNames[id], score |-> score]

\* the candidate lists of the drawn groups: sorted by score, ids distinct
FlatCandidateLists ==
    {<< >>, <<FlatCandidate(1, 64)>>, <<FlatCandidate(2, 38)>>,
     <<FlatCandidate(1, 64), FlatCandidate(2, 38)>>}

FlatSpans == {1, 2}

\* the first slot of the j-th group: the spans before it, added up
RECURSIVE FlatStartSlot(_, _)
FlatStartSlot(spans, j) ==
    IF j = 1 THEN 0 ELSE FlatStartSlot(spans, j - 1) + spans[j - 1]

\* groups as buildGroups and the matching loop leave them
FlatGroups(spans, lists) ==
    [j \in 1..Len(spans) |->
        WithConfidence([startSlot |-> FlatStartSlot(spans, j), span |-> spans[j],
                        aHash64 |-> FingerprintOfK[0].aHash64,
                        dHash64 |-> FingerprintOfK[0].dHash64,
                        pHash64 |-> FingerprintOfK[0].pHash64,
                        autoDetected |-> FALSE, candidates |-> << >>],
                       lists[j])]

\* a call of candidatesFromGroups on drawn groups
FlattenCall(spans, lists) ==
    <<[fn |-> "candidatesFromGroups", groups |-> FlatGroups(spans, lists)]>>

MaxSignals == 3

\* signals as modeSignal, gateSignal and candidateSignal make them and as the
\* matched response writes them; the last two agree on source, type, slot and
\* value and differ in the rest of meta
SignalPool ==
    <<modeSignal("ambiguous"),
      gateSignal("no_candidates", NoMeta),
      gateSignal("ambiguous_slot", [slot_index |-> 10]),
      gateSignal("ambiguous_slot", [slot_index |-> 2]),
      Signal("hash_match", "env", "ITEM_CLASSIFY_MATCHING=1", [matchingEnv |-> "1"]),
      candidateSignal("class_candidate",
                      [slot_index |-> 0, id |-> "unknown_class", label |-> "Unknown Class"]),
      candidateSignal("class_candidate",
                      [slot_index |-> 0, id |-> "other_class", label |-> "Other Class"])>>

\* the signals a caller generated, in the order it generated them
SignalsOf(picks) == [i \in 1..Len(picks) |-> SignalPool[picks[i]]]

ContractCall(picks) ==
    [fn |-> "buildContract", status |-> "matches", items |-> << >>, classes |-> << >>,
     picks |-> picks]

\* the same collection of signals, generated in two orders
ContractCallPair(picks, q) ==
    <<ContractCall(picks), ContractCall([i \in 1..Len(picks) |-> picks[q[i]]])>>

InitContract ==
    /\ \/ \E n \in 0..MaxFlatGroups :
             \E spans \in [1..n -> FlatSpans], lists \in [1..n -> FlatCandidateLists] :
                call = FlattenCall(spans, lists)
       \/ \E n \in 0..MaxSignals :
             \E picks \in [1..n -> 1..Len(SignalPool)], q \in Reorderings(n) :
                call = ContractCallPair(picks, q)
    /\ ret = << >>
    /\ IdleRequest

CallCandidatesFromGroups ==
    /\ Len(ret) < Len(call)
    /\ LET c == call[Len(ret) + 1]
       IN  /\ c.fn = "candidatesFromGroups"
           /\ ret' = Append(ret, candidatesFromGroups(c.groups))
    /\ UNCHANGED <<call, requestVars>>

CallBuildContract ==
    /\ Len(ret) < Len(call)
    /\ LET c == call[Len(ret) + 1]
       IN  /\ c.fn = "buildContract"
           /\ ret' = Append(ret, buildContract(c.status, c.items, c.classes,
                                            SignalsOf(c.picks)))
    /\ UNCHANGED <<call, requestVars>>

NextContract ==
    \/ CallCandidatesFromGroups
    \/ CallBuildContract

SpecContract == InitContract /\ [][NextContract]_vars

FlattenDone ==
    /\ Len(ret) = 1
    /\ call[1].fn = "candidatesFromGroups"

\* the number of candidates of the groups before the j-th
RECURSIVE CandidatesBefore(_, _)
CandidatesBefore(gs, j) ==
    IF j = 1 THEN 0 ELSE CandidatesBefore(gs, j - 1) + Len(gs[j - 1].candidates)

\* C22: candidatesFromGroups gives one item per candidate of each group, in
\* group order and inside a group in candidate order; the item carries the
\* group's startSlot as slot_index, the candidate's score as meta.score and
\* the group's span as meta.group_span.
C22_OneItemPerRetainedCandidate ==
    FlattenDone =>
        LET gs == call[1].groups
            items == ret[1]
        IN  /\ Len(items) = CandidatesBefore(gs, Len(gs) + 1)
            /\ \A j \in 1..Len(gs) :
                  \A c \in 1..Len(gs[j].candidates) :
                      LET item == items[CandidatesBefore(gs, j) + c]
                      IN  /\ item.kind = "item"
                          /\ item.id = String(gs[j].candidates[c].itemId)
                          /\ item.label = gs[j].candidates[c].name
                          /\ item.slot_index = gs[j].startSlot
                          /\ item.meta.score = gs[j].candidates[c].score
                          /\ item.meta.group_span = gs[j].span

\* three groups, the first of span 2 and without a candidate, the second with
\* two candidates, the third with one: three items, tagged with slots 2, 2, 3
C22_Witness ==
    /\ FlattenDone
    /\ Len(call[1].groups) = 3
    /\ call[1].groups[1].span = 2
    /\ Len(call[1].groups[1].candidates) = 0
    /\ Len(call[1].groups[2].candidates) = 2
    /\ call[1].groups[2].span = 1
    /\ Len(call[1].groups[3].candidates) = 1
    /\ Len(ret[1]) = 3
    /\ ret[1][1].slot_index = 2
    /\ ret[1][2].slot_index = 2
    /\ ret[1][3].slot_index = 3

ContractPairDone ==
    /\ Len(ret) = 2
    /\ call[1].fn = "buildContract"

\* the slot position of a signal; a signal without one comes after the others
SlotRank(sig) == IF "slot_index" \in DOMAIN sig.meta THEN sig.meta.slot_index ELSE 10000

\* a comes before b in the order (source, type, slot position, value)
SignalBefore(a, b) ==
    \/ StringLess(CodeUnits[a.source], CodeUnits[b.source])
    \/ /\ a.source = b.source
       /\ \/ StringLess(CodeUnits[a.type], CodeUnits[b.type])
          \/ /\ a.type = b.type
             /\ \/ SlotRank(a) < SlotRank(b)
                \/ /\ SlotRank(a) = SlotRank(b)
                   /\ StringLess(CodeUnits[a.value], CodeUnits[b.value])

\* the signals of a contract are in the order (source, type, slot position,
\* value), and two generation orders of signals that pairwise differ in one
\* of the four give the same sequence
SignalsSortedByKey ==
    ContractPairDone =>
        /\ \A r \in 1..2 :
              LET out == ret[r].evidence.signals
              IN  \A i, j \in 1..Len(out) : i < j => ~SignalBefore(out[j], out[i])
        /\ (\A i, j \in 1..Len(call[1].picks) :
                (i # j /\ call[1].picks[i] # call[1].picks[j]) =>
                    \/ SignalBefore(SignalPool[call[1].picks[i]], SignalPool[call[1].picks[j]])
                    \/ SignalBefore(SignalPool[call[1].picks[j]], SignalPool[call[1].picks[i]]))
           => ret[1].evidence.signals = ret[2].evidence.signals

\* C23: buildContract gives the same signal sequence for any two generation
\* orders of the same collection of signals.
C23_SignalOrderIgnoresGeneration ==
    ContractPairDone => ret[1].evidence.signals = ret[2].evidence.signals


(***************************************************************************)
(* SpecCache: hashOne calls of concurrent requests on the shared cache      *)
(***************************************************************************)
MaxLookups == 2

\* the instants Date.now() is read at: the start, the last instant at which an
\* entry written at the start is fresh, its expiry, and the same for an entry
\* written at that expiry
ClockPoints ==
    {0, ITEM_HASH_CACHE_TTL_MS - 1, ITEM_HASH_CACHE_TTL_MS,
     2 * ITEM_HASH_CACHE_TTL_MS - 1, 2 * ITEM_HASH_CACHE_TTL_MS}

\* the row every lookup is for: concurrent requests list the same catalog
LookupRow == CatalogRows(1)[1]

\* the cache when the lookups begin: empty, or written at instant 0
LookupCacheInits ==
    {EmptyCache,
     [u \in {LookupRow.source_image_url} |->
         CachedHash(FingerprintOfK[0], ITEM_HASH_CACHE_TTL_MS)]}

NotStarted == [state |-> "notStarted"]

InitCache ==
    /\ call = [p \in 1..MaxLookups |-> [fn |-> "hashOne", it |-> LookupRow]]
    /\ ret = [p \in 1..MaxLookups |-> NotStarted]
    /\ req = [route |-> "none"]
    /\ matchingEnv = "1"
    /\ itemHashCache \in LookupCacheInits
    /\ now = 0
    /\ pc = "idle"
    /\ boxes = << >>
    /\ slots = << >>
    /\ groups = << >>
    /\ catalog = << >>
    /\ itemHashes = << >>
    /\ batchStart = 0
    /\ response = NoResponse
    /\ queryError = "unset"
    /\ hashCalls = NoCalls
    /\ fetchStarts = << >>
    /\ requestTimedOut = FALSE

\* what itemHashCache.get(cacheKey) gives
CacheGet(cache, key) == IF key \in DOMAIN cache THEN cache[key] ELSE Null

\* lines 788-800: a hashOne call reads the clock and the cache; on a hit it
\* returns, on a miss it awaits the fetch
StartLookup ==
    \E p \in 1..Len(call) :
        /\ ret[p] = NotStarted
        /\ LET result == hashOne(call[p].it, FetchFailed, itemHashCache, now)
               seen == CacheGet(itemHashCache, call[p].it.source_image_url)
           IN  ret' = [ret EXCEPT ![p] =
                          IF result.r # Null
                          THEN [state |-> "done", startedAt |-> now, seen |-> seen,
                                hit |-> TRUE, r |-> result.r]
                          ELSE [state |-> "fetching", startedAt |-> now, seen |-> seen]]
        /\ UNCHANGED <<call, req, matchingEnv, pc, boxes, slots, groups, catalog,
                       itemHashes, batchStart, itemHashCache, now, response, queryError,
                       hashCalls, fetchStarts, requestTimedOut>>

\* the lookups that have written the cache
Writers == {q \in 1..Len(ret) : ret[q].state = "done" /\ ~ret[q].hit /\ ret[q].r # Null}

\* lines 800-810: the fetch of a call settles; on success the call writes the
\* entry, with the expiry counted from the instant the call read at its start
LookupSettles ==
    \E p \in 1..Len(call), fetched \in FetchOutcomes :
        /\ ret[p].state = "fetching"
        /\ LET result == hashOne(call[p].it, fetched, EmptyCache, ret[p].startedAt)
           IN  /\ itemHashCache' = CacheAfter(itemHashCache, <<result>>)
               /\ ret' = [ret EXCEPT ![p] =
                             [state |-> "done", startedAt |-> ret[p].startedAt,
                              seen |-> ret[p].seen, hit |-> FALSE, r |-> result.r,
                              fetched |-> fetched, settledAt |-> now,
                              order |-> Cardinality(Writers) + 1]]
        /\ UNCHANGED <<call, req, matchingEnv, pc, boxes, slots, groups, catalog,
                       itemHashes, batchStart, now, response, queryError,
                       hashCalls, fetchStarts, requestTimedOut>>

\* time passes
Tick ==
    /\ \E t \in ClockPoints : t > now /\ now' = t
    /\ UNCHANGED <<call, ret, req, matchingEnv, pc, boxes, slots, groups, catalog,
                   itemHashes, batchStart, itemHashCache, response, queryError,
                   hashCalls, fetchStarts, requestTimedOut>>

NextCache ==
    \/ StartLookup
    \/ LookupSettles
    \/ Tick

SpecCache == InitCache /\ [][NextCache]_vars

\* the three hashes of a cache entry or of a hashOne result
HashesOf(h) == <<h.aHash64, h.dHash64, h.pHash64>>

\* C24: a hashOne call uses the cached entry exactly when there is one and the
\* instant the call read is strictly before its expiresAt; otherwise the image
\* is fetched, and a successful fetch writes the hashes of the fetched image
\* with expiresAt = the instant the call read + ITEM_HASH_CACHE_TTL_MS.
C24_EntryUsedOnlyBeforeExpiry ==
    pc = "idle" =>
        \A p \in 1..Len(ret) :
            ret[p] # NotStarted =>
                LET fresh == ret[p].seen # Null /\ ret[p].startedAt < ret[p].seen.expiresAt
                IN  /\ fresh => /\ ret[p].state = "done"
                                /\ ret[p].hit
                                /\ HashesOf(ret[p].r) = HashesOf(ret[p].seen)
                    /\ ~fresh =>
                          /\ ret[p].state = "done" => ~ret[p].hit
                          /\ (ret[p].state = "done" /\ ret[p].fetched # FetchFailed) =>
                                /\ HashesOf(ret[p].r) = HashesOf(ret[p].fetched)
                                /\ ret[p].order = Cardinality(Writers) =>
                                      itemHashCache[call[p].it.source_image_url] =
                                          CachedHash(ret[p].fetched,
                                                     ret[p].startedAt + ITEM_HASH_CACHE_TTL_MS)

\* a call that started at the very instant the entry expired has fetched the
\* image, which had changed, and written a new entry
C24_Witness ==
    /\ pc = "idle"
    /\ \E p \in 1..Len(ret) :
          /\ ret[p].state = "done"
          /\ ret[p].seen # Null
          /\ ret[p].startedAt = ret[p].seen.expiresAt
          /\ ~ret[p].hit
          /\ ret[p].r # Null
          /\ HashesOf(ret[p].r) # HashesOf(ret[p].seen)
          /\ itemHashCache[LookupRow.source_image_url].expiresAt =
                2 * ITEM_HASH_CACHE_TTL_MS

\* C25: when concurrent calls miss the same key and write it, the cache holds
\* the whole entry written by the call that settled last: its three hashes are
\* those of the image that call fetched and its expiry is that call's; no call
\* fails because of the other.
C25_LastWriterWins ==
    pc = "idle" =>
        /\ \A p \in Writers :
              ret[p].order = Cardinality(Writers) =>
                  itemHashCache[call[p].it.source_image_url] =
                      CachedHash(ret[p].fetched,
                                 ret[p].startedAt + ITEM_HASH_CACHE_TTL_MS)
        /\ \A p \in 1..Len(ret) :
              (ret[p].state = "done" /\ ~ret[p].hit) =>
                  (ret[p].r = Null <=> ret[p].fetched = FetchFailed)

\* two calls missed the same key while both fetches were outstanding; both
\* wrote, with different hashes and expiries, and the entry is the later one's
C25_Witness ==
    /\ pc = "idle"
    /\ Cardinality(Writers) = 2
    /\ ret[1].order = 2
    /\ ret[2].order = 1
    /\ ret[1].startedAt < ret[2].startedAt
    /\ ret[1].startedAt < ret[2].settledAt
    /\ ret[2].startedAt < ret[2].settledAt
    /\ HashesOf(ret[1].r) # HashesOf(ret[2].r)
    /\ HashesOf(itemHashCache[LookupRow.source_image_url]) = HashesOf(ret[1].r)

(***************************************************************************)
(* SpecBatch: one batch of hashOne calls awaited by Promise.all             *)
(***************************************************************************)
MaxBatch == 3

\* the group the hashed entries are scored against
BatchGroup ==
    NewGroup(<<SlotFeature(0, CropBox(0, 0, 1, 1), FingerprintOfK[0])>>, 1, 1)

InitBatch ==
    /\ \E n \in 1..MaxBatch :
          /\ catalog = CatalogRows(n)
          /\ call = [p \in 1..n |-> [fn |-> "hashOne", it |-> CatalogRows(n)[p]]]
          /\ ret = [p \in 1..n |-> NotStarted]
    /\ req = LoopRequest
    /\ matchingEnv = "1"
    /\ itemHashCache \in CacheInits
    /\ now = 2 * ITEM_HASH_CACHE_TTL_MS
    /\ pc = "hashing"
    /\ boxes = << >>
    /\ slots = << >>
    /\ groups = <<BatchGroup>>
    /\ itemHashes = << >>
    /\ batchStart = 0
    /\ response = NoResponse
    /\ queryError = "null"
    /\ hashCalls = NoCalls
    /\ fetchStarts = << >>
    /\ requestTimedOut = FALSE

\* line 815: batch.map(hashOne) starts every call of the batch, each running
\* to its first await
StartBatchLookups ==
    /\ pc = "hashing"
    /\ \A p \in 1..Len(ret) : ret[p] = NotStarted
    /\ ret' = [p \in 1..Len(call) |->
                  LET result == hashOne(call[p].it, FetchFailed, itemHashCache, now)
                      seen == CacheGet(itemHashCache, call[p].it.source_image_url)
                  IN  IF result.r # Null
                      THEN [state |-> "done", startedAt |-> now, seen |-> seen,
                            hit |-> TRUE, r |-> result.r]
                      ELSE [state |-> "fetching", startedAt |-> now, seen |-> seen]]
    /\ pc' = "awaiting"
    /\ UNCHANGED <<call, req, matchingEnv, boxes, slots, groups, catalog,
                   itemHashes, batchStart, itemHashCache, now, response, queryError,
                   hashCalls, fetchStarts, requestTimedOut>>

\* the calls of the batch whose result was there without a fetch, in row order
RECURSIVE HitsFrom(_)
HitsFrom(p) ==
    IF p > Len(ret) THEN << >>
    ELSE IF ret[p].hit THEN <<[r |-> ret[p].r]>> \o HitsFrom(p + 1)
    ELSE HitsFrom(p + 1)

\* the results of the fetches that succeeded, in the order they settled
SettledInOrder ==
    [k \in 1..Cardinality(Writers) |->
        [r |-> ret[CHOOSE p \in Writers : ret[p].order = k].r]]

\* a plausible slip: each call pushes its own result when it settles
AwaitAllInSettleOrder ==
    /\ pc = "awaiting"
    /\ \A p \in 1..Len(ret) : ret[p].state = "done"
    /\ itemHashes' = PushResults(itemHashes, HitsFrom(1) \o SettledInOrder, 1)
    /\ batchStart' = batchStart + HASH_CONCURRENCY
    /\ groups' = [j \in 1..Len(groups) |-> MatchGroup(groups[j], itemHashes')]
    /\ pc' = "matched"
    /\ UNCHANGED <<call, ret, req, matchingEnv, boxes, slots, catalog,
                   itemHashCache, now, response, queryError, hashCalls, fetchStarts,
                   requestTimedOut>>

\* lines 815-848: Promise.all resolves when every call has settled, with the
\* results at the positions of their rows; they are pushed in that order, the
\* loop ends (the catalog was one batch) and the groups are matched
AwaitAll ==
    /\ pc = "awaiting"
    /\ \A p \in 1..Len(ret) : ret[p].state = "done"
    /\ itemHashes' = PushResults(itemHashes, [p \in 1..Len(ret) |-> [r |-> ret[p].r]], 1)
    /\ batchStart' = batchStart + HASH_CONCURRENCY
    /\ groups' = [j \in 1..Len(groups) |-> MatchGroup(groups[j], itemHashes')]
    /\ pc' = "matched"
    /\ UNCHANGED <<call, ret, req, matchingEnv, boxes, slots, catalog,
                   itemHashCache, now, response, queryError, hashCalls, fetchStarts,
                   requestTimedOut>>

NextBatch ==
    \/ StartBatchLookups
    \/ LookupSettles
    \/ AwaitAll

SpecBatch == InitBatch /\ [][NextBatch]_vars

\* C29: whatever the order in which the fetches of a batch complete, the
\* hashed entries are the successful rows in catalog order, and so candidates
\* of equal score stand in catalog order in every group.
C29_EntriesInCatalogOrder ==
    pc = "matched" =>
        /\ \A a, b \in 1..Len(itemHashes) : a < b => itemHashes[a].id < itemHashes[b].id
        /\ {itemHashes[a].id : a \in 1..Len(itemHashes)} =
              {call[p].it.id : p \in {q \in 1..Len(ret) : ret[q].r # Null}}
        /\ \A j \in 1..Len(groups) :
              \A a, b \in 1..Len(groups[j].candidates) :
                  (a < b /\ groups[j].candidates[a].score = groups[j].candidates[b].score)
                      => groups[j].candidates[a].itemId < groups[j].candidates[b].itemId

\* three fetches settled in the reverse of the catalog order; the first and
\* the last row score alike and are candidates in catalog order
C29_Witness ==
    /\ pc = "matched"
    /\ Len(ret) = 3
    /\ Writers = {1, 2, 3}
    /\ ret[3].order = 1
    /\ ret[2].order = 2
    /\ ret[1].order = 3
    /\ Len(itemHashes) = 3
    /\ Len(groups[1].candidates) = 3
    /\ groups[1].candidates[1].score = groups[1].candidates[2].score
    /\ groups[1].candidates[1].itemId = 1
    /\ groups[1].candidates[2].itemId = 3


====
